---- MODULE Spec2Model ----
(***************************************************************************)
(* cronned(input, locale): natural-language schedule text to five-field    *)
(* cron lines.  Text is a sequence of one-character strings, so that every *)
(* pattern of the program is matched character by character; a cron field  *)
(* and a cron line are character sequences too.  A character outside ASCII *)
(* is written by its code point, "U+hhhh".                                 *)
(*                                                                         *)
(* A regular expression is modelled by the set of positions at which it    *)
(* can end when started from a set of positions (position i stands before  *)
(* character i; Len+1 is the end of the text).  RegExp.test is "some end   *)
(* position exists".  Where the program reads a capture group, the         *)
(* alternatives are tried in the engine's priority order (leftmost start,  *)
(* greedy quantifiers, alternation left to right).                         *)
(***************************************************************************)
EXTENDS Integers, Sequences, FiniteSets, TLC

VARIABLES
    vocabulary,      \* the phrases the caller may type (fixed per behaviour)
    input,           \* raw text handed to cronned
    typed,           \* number of phrases typed so far
    locale,          \* locale code handed to cronned
    pc,              \* "typing" before the call, "returned" after it
    normalizedText,  \* cronned's local: normalizeInput(input)
    matches,         \* cronned's local: matchPatterns(...), NoMatches if not run
    result,          \* the CronResult returned
    codes,           \* the locale codes the caller may pass (fixed per behaviour)
    locales,         \* the module-level registry LOCALES
    recording,       \* whether earlier calls are remembered (fixed per behaviour)
    earlier          \* one earlier call with its outcome, or null

vars == <<vocabulary, input, typed, locale, pc, normalizedText, matches, result,
          codes, locales, recording, earlier>>

-----------------------------------------------------------------------------
(* Characters *)

DigitChars == <<"0", "1", "2", "3", "4", "5", "6", "7", "8", "9">>
LowerChars == <<"a", "b", "c", "d", "e", "f", "g", "h", "i", "j", "k", "l", "m", "n", "o", "p", "q", "r", "s", "t", "u", "v", "w", "x", "y", "z">>
UpperChars == <<"A", "B", "C", "D", "E", "F", "G", "H", "I", "J", "K", "L", "M", "N", "O", "P", "Q", "R", "S", "T", "U", "V", "W", "X", "Y", "Z">>

Range(s) == {s[i] : i \in DOMAIN s}

\* \d
DigitClass == Range(DigitChars)
\* \w of a RegExp without the u flag: ASCII letters, digits and underscore
WordClass == Range(LowerChars) \cup Range(UpperChars) \cup Range(DigitChars) \cup {"_"}
\* \s
SpaceClass == {" ", "\t", "\n", "\r"}

DigitVal(c) == (CHOOSE i \in DOMAIN DigitChars : DigitChars[i] = c) - 1

\* String.prototype.toLowerCase, one character
ToLowerChar(c) ==
    IF c \in WordClass /\ c \in Range(UpperChars)
    THEN LowerChars[CHOOSE i \in DOMAIN UpperChars : UpperChars[i] = c]
    ELSE c

\* parseInt(digits, 10) on a sequence of digit characters
RECURSIVE ParseInt(_)
ParseInt(ds) ==
    IF ds = <<>> THEN 0
    ELSE 10 * ParseInt(SubSeq(ds, 1, Len(ds) - 1)) + DigitVal(ds[Len(ds)])

\* `${n}` for a non-negative integer n
RECURSIVE NumToString(_)
NumToString(n) ==
    IF n < 10 THEN <<DigitChars[n + 1]>>
    ELSE NumToString(n \div 10) \o <<DigitChars[(n % 10) + 1]>>

Min(a, b) == IF a <= b THEN a ELSE b
Max(a, b) == IF a >= b THEN a ELSE b

-----------------------------------------------------------------------------
(* Regular-expression pieces over position sets *)

Positions(t) == 1..(Len(t) + 1)

\* the literal w stands at position i of t
At(t, i, w) ==
    /\ i + Len(w) - 1 <= Len(t)
    /\ (Len(w) = 0 \/ t[i] = w[1])
    /\ SubSeq(t, i, i + Len(w) - 1) = w

\* a literal
Lit(t, S, w) == {i + Len(w) : i \in {j \in S : At(t, j, w)}}
\* (w1|w2|...) for a set of literals
Alt(t, S, ws) == UNION {Lit(t, S, w) : w \in ws}
\* (w1|w2|...)?
OptAlt(t, S, ws) == S \cup Alt(t, S, ws)

\* length of the run of characters of class cls starting at position i
RECURSIVE RunLen(_, _, _)
RunLen(t, i, cls) ==
    IF i <= Len(t) /\ t[i] \in cls THEN 1 + RunLen(t, i + 1, cls) ELSE 0

\* \s*
WS0(t, S) == UNION {i..(i + RunLen(t, i, SpaceClass)) : i \in S}
\* \s+
WS1(t, S) == UNION {(i + 1)..(i + RunLen(t, i, SpaceClass)) : i \in S}
\* \d{lo,hi}
Dig(t, S, lo, hi) ==
    UNION {{i + n : n \in lo..Min(hi, RunLen(t, i, DigitClass))} : i \in S}
\* \d+
DigPlus(t, S) == Dig(t, S, 1, Len(t))

\* \b at position i
IsBoundary(t, i) ==
    LET before == i > 1 /\ t[i - 1] \in WordClass
        after  == i <= Len(t) /\ t[i] \in WordClass
    IN  before # after
WB(t, S) == {i \in S : IsBoundary(t, i)}

\* smallest element of a non-empty set of positions
Least(S) == CHOOSE i \in S : \A j \in S : i <= j

-----------------------------------------------------------------------------
(* src/src/parsers.ts: normalizeInput *)

\* replace(/[cls]+/g, " "): every maximal run of cls characters becomes one space
ReplaceRuns(s, cls, i) ==
    LET kept == SelectSeq([j \in 1..(Len(s) - i + 1) |-> j + i - 1],
                          LAMBDA j : s[j] \in cls => ~(j > 1 /\ s[j - 1] \in cls))
    IN  [k \in DOMAIN kept |-> IF s[kept[k]] \in cls THEN " " ELSE s[kept[k]]]

\* String.prototype.trim
Trim(s) ==
    LET lead == RunLen(s, 1, SpaceClass)
        keep == {i \in DOMAIN s : s[i] \notin SpaceClass}
    IN  IF keep = {} THEN <<>>
        ELSE SubSeq(s, lead + 1, CHOOSE i \in keep : \A j \in keep : j <= i)

ToLowerCase(s) == [i \in DOMAIN s |-> ToLowerChar(s[i])]

\* the two replacements in the other order
normalizeInputSpacesFirst(s) ==
    Trim(ReplaceRuns(ReplaceRuns(ToLowerCase(s), SpaceClass, 1), {","}, 1))

normalizeInput(s) ==
    Trim(ReplaceRuns(ReplaceRuns(ToLowerCase(s), {","}, 1), SpaceClass, 1))

-----------------------------------------------------------------------------
(* src/docs/cronify.mjs (constants.ts), src/src/locales/en.ts: locale data *)

\* Object.keys order is the order of the table
WEEKDAYS ==
    << <<<<"s", "u", "n", "d", "a", "y">>, 0>>, <<<<"s", "u", "n">>, 0>>, <<<<"m", "o", "n", "d", "a", "y">>, 1>>, <<<<"m", "o", "n">>, 1>>,
       <<<<"t", "u", "e", "s", "d", "a", "y">>, 2>>, <<<<"t", "u", "e">>, 2>>, <<<<"t", "u", "e", "s">>, 2>>,
       <<<<"w", "e", "d", "n", "e", "s", "d", "a", "y">>, 3>>, <<<<"w", "e", "d">>, 3>>,
       <<<<"t", "h", "u", "r", "s", "d", "a", "y">>, 4>>, <<<<"t", "h", "u">>, 4>>, <<<<"t", "h", "u", "r", "s">>, 4>>,
       <<<<"f", "r", "i", "d", "a", "y">>, 5>>, <<<<"f", "r", "i">>, 5>>, <<<<"s", "a", "t", "u", "r", "d", "a", "y">>, 6>>, <<<<"s", "a", "t">>, 6>> >>

MONTHS ==
    << <<<<"j", "a", "n", "u", "a", "r", "y">>, 1>>, <<<<"j", "a", "n">>, 1>>, <<<<"f", "e", "b", "r", "u", "a", "r", "y">>, 2>>, <<<<"f", "e", "b">>, 2>>,
       <<<<"m", "a", "r", "c", "h">>, 3>>, <<<<"m", "a", "r">>, 3>>, <<<<"a", "p", "r", "i", "l">>, 4>>, <<<<"a", "p", "r">>, 4>>,
       <<<<"m", "a", "y">>, 5>>, <<<<"j", "u", "n", "e">>, 6>>, <<<<"j", "u", "n">>, 6>>, <<<<"j", "u", "l", "y">>, 7>>, <<<<"j", "u", "l">>, 7>>,
       <<<<"a", "u", "g", "u", "s", "t">>, 8>>, <<<<"a", "u", "g">>, 8>>,
       <<<<"s", "e", "p", "t", "e", "m", "b", "e", "r">>, 9>>, <<<<"s", "e", "p">>, 9>>, <<<<"s", "e", "p", "t">>, 9>>,
       <<<<"o", "c", "t", "o", "b", "e", "r">>, 10>>, <<<<"o", "c", "t">>, 10>>, <<<<"n", "o", "v", "e", "m", "b", "e", "r">>, 11>>, <<<<"n", "o", "v">>, 11>>,
       <<<<"d", "e", "c", "e", "m", "b", "e", "r">>, 12>>, <<<<"d", "e", "c">>, 12>> >>

KEYWORDS_EN ==
    [ every     |-> <<<<"e", "v", "e", "r", "y">>>>,
      at        |-> <<<<"a", "t">>>>,
      between   |-> <<<<"b", "e", "t", "w", "e", "e", "n">>>>,
      and       |-> <<<<"a", "n", "d">>>>,
      hourly    |-> <<<<"h", "o", "u", "r", "l", "y">>>>,
      daily     |-> <<<<"d", "a", "i", "l", "y">>>>,
      weekly    |-> <<<<"w", "e", "e", "k", "l", "y">>>>,
      monthly   |-> <<<<"m", "o", "n", "t", "h", "l", "y">>>>,
      quarterly |-> <<<<"q", "u", "a", "r", "t", "e", "r", "l", "y">>>>,
      weekday   |-> <<<<"w", "e", "e", "k", "d", "a", "y">>, <<"w", "e", "e", "k", "d", "a", "y", "s">>>>,
      weekend   |-> <<<<"w", "e", "e", "k", "e", "n", "d">>, <<"w", "e", "e", "k", "e", "n", "d", "s">>>>,
      midnight  |-> <<<<"m", "i", "d", "n", "i", "g", "h", "t">>>>,
      noon      |-> <<<<"n", "o", "o", "n">>>>,
      minute    |-> <<<<"m", "i", "n", "u", "t", "e">>, <<"m", "i", "n", "u", "t", "e", "s">>>>,
      hour      |-> <<<<"h", "o", "u", "r">>, <<"h", "o", "u", "r", "s">>>>,
      day       |-> <<<<"d", "a", "y">>, <<"d", "a", "y", "s">>>>,
      week      |-> <<<<"w", "e", "e", "k">>, <<"w", "e", "e", "k", "s">>>>,
      month     |-> <<<<"m", "o", "n", "t", "h">>, <<"m", "o", "n", "t", "h", "s">>>> ]

\* locales/es.js is not part of the source tree at hand.  The es bundle holds
\* the entries that the Spanish examples of index.test.ts (7-12, 21-23) rely
\* on; a category without such an example holds its plain Spanish word, since
\* an empty list would make its pattern match every text.
WEEKDAYS_ES == << <<<<"l", "u", "n", "e", "s">>, 1>>, <<<<"v", "i", "e", "r", "n", "e", "s">>, 5>> >>
MONTHS_ES == << <<<<"e", "n", "e", "r", "o">>, 1>> >>
KEYWORDS_ES ==
    [ every     |-> <<<<"c", "a", "d", "a">>>>,
      at        |-> <<<<"a", " ", "l", "a", "s">>>>,
      between   |-> <<<<"e", "n", "t", "r", "e">>>>,
      and       |-> <<<<"y">>>>,
      hourly    |-> <<<<"c", "a", "d", "a", " ", "h", "o", "r", "a">>>>,
      daily     |-> <<<<"d", "i", "a", "r", "i", "a", "m", "e", "n", "t", "e">>>>,
      weekly    |-> <<<<"s", "e", "m", "a", "n", "a", "l", "m", "e", "n", "t", "e">>>>,
      monthly   |-> <<<<"m", "e", "n", "s", "u", "a", "l", "m", "e", "n", "t", "e">>>>,
      quarterly |-> <<<<"t", "r", "i", "m", "e", "s", "t", "r", "a", "l", "m", "e", "n", "t", "e">>>>,
      weekday   |-> <<<<"d", "U+00ED", "a", " ", "l", "a", "b", "o", "r", "a", "b", "l", "e">>>>,
      weekend   |-> <<<<"f", "i", "n", " ", "d", "e", " ", "s", "e", "m", "a", "n", "a">>>>,
      midnight  |-> <<<<"m", "e", "d", "i", "a", "n", "o", "c", "h", "e">>>>,
      noon      |-> <<<<"m", "e", "d", "i", "o", "d", "U+00ED", "a">>>>,
      minute    |-> <<<<"m", "i", "n", "u", "t", "o">>, <<"m", "i", "n", "u", "t", "o", "s">>>>,
      hour      |-> <<<<"h", "o", "r", "a">>, <<"h", "o", "r", "a", "s">>>>,
      day       |-> <<<<"d", "U+00ED", "a">>, <<"d", "U+00ED", "a", "s">>>>,
      week      |-> <<<<"s", "e", "m", "a", "n", "a">>, <<"s", "e", "m", "a", "n", "a", "s">>>>,
      month     |-> <<<<"m", "e", "s">>, <<"m", "e", "s", "e", "s">>>> ]

\* The registry, an object literal.  The zh table (locales/zh.js) is not part
\* of the source tree at hand and no locale code drawn here resolves to it.
LOCALES ==
    << <<<<"e", "n">>, [weekdays |-> WEEKDAYS, months |-> MONTHS, keywords |-> KEYWORDS_EN]>>,
       <<<<"e", "s">>, [weekdays |-> WEEKDAYS_ES, months |-> MONTHS_ES, keywords |-> KEYWORDS_ES]>> >>

\* the property names an object literal inherits from Object.prototype; the
\* value found under each is a function or the prototype itself, not a bundle
ObjectPrototype ==
    { <<"c", "o", "n", "s", "t", "r", "u", "c", "t", "o", "r">>, <<"_", "_", "p", "r", "o", "t", "o", "_", "_">>, <<"h", "a", "s", "O", "w", "n", "P", "r", "o", "p", "e", "r", "t", "y">>, <<"i", "s", "P", "r", "o", "t", "o", "t", "y", "p", "e", "O", "f">>,
      <<"p", "r", "o", "p", "e", "r", "t", "y", "I", "s", "E", "n", "u", "m", "e", "r", "a", "b", "l", "e">>, <<"t", "o", "L", "o", "c", "a", "l", "e", "S", "t", "r", "i", "n", "g">>, <<"t", "o", "S", "t", "r", "i", "n", "g">>, <<"v", "a", "l", "u", "e", "O", "f">>,
      <<"_", "_", "d", "e", "f", "i", "n", "e", "G", "e", "t", "t", "e", "r", "_", "_">>, <<"_", "_", "d", "e", "f", "i", "n", "e", "S", "e", "t", "t", "e", "r", "_", "_">>, <<"_", "_", "l", "o", "o", "k", "u", "p", "G", "e", "t", "t", "e", "r", "_", "_">>, <<"_", "_", "l", "o", "o", "k", "u", "p", "S", "e", "t", "t", "e", "r", "_", "_">> }

\* locale.toLowerCase().split('-')[0]
LocaleName(code) ==
    LET lower == ToLowerCase(code)
        dashes == {i \in DOMAIN lower : lower[i] = "-"}
    IN  IF dashes = {} THEN lower ELSE SubSeq(lower, 1, Least(dashes) - 1)

KeySet(table) == {table[i][1] : i \in DOMAIN table}
\* table[key]
Lookup(table, key) == table[CHOOSE i \in DOMAIN table : table[i][1] = key][2]

\* registry[name] ?? registry.en
Resolve(registry, name) ==
    IF name \in KeySet(registry) THEN Lookup(registry, name)
    ELSE IF name \in ObjectPrototype THEN [inherited |-> name]
    ELSE Lookup(registry, <<"e", "n">>)

\* a lookup that answers with the locale of the remembered call
getLocaleSticky(code) ==
    Resolve(locales, LocaleName(IF earlier = <<>> THEN code ELSE earlier[1].locale))

getLocale(code) == Resolve(locales, LocaleName(code))

\* an optional value: null is the empty sequence, a value v is <<v>>
null == <<>>
Some(v) == <<v>>

-----------------------------------------------------------------------------
(* src/unnamed/part_002: detectUnsupportedPatterns *)

MsgNthWeekday == "Cron (standard) cannot express 'nth/last weekday of month'. Use RRULE or Quartz."
MsgBusinessDays == "'Business days' and holiday calendars are beyond plain cron. Use RRULE + calendar exceptions."
MsgLastDay == "'Last day of month' is not in standard cron. Use Quartz L or emit 28-31 with guard logic."

OrdinalWords ==
    { <<"l", "a", "s", "t">>, <<"n", "t", "h">>, <<"f", "i", "r", "s", "t">>, <<"s", "e", "c", "o", "n", "d">>, <<"t", "h", "i", "r", "d">>, <<"f", "o", "u", "r", "t", "h">>, <<"p", "r", "i", "m", "e", "r">>,
      <<"s", "e", "g", "u", "n", "d", "o">>, <<"t", "e", "r", "c", "e", "r">>, <<"c", "u", "a", "r", "t", "o">>, <<"q", "u", "i", "n", "t", "o">>, <<"U+00FA", "l", "t", "i", "m", "o">>, <<"p", "r", "i", "m", "e", "r", "o">>,
      <<"t", "e", "r", "c", "e", "r", "o">>, <<"U+6700", "U+540E">>, <<"U+7B2C", "U+4E00">>, <<"U+7B2C", "U+4E8C">>, <<"U+7B2C", "U+4E09">>, <<"U+7B2C", "U+56DB">> }

\* (^|\s|)(last|nth|...)(U+4E00U+4E2A|U+4E2A|o)?(\s+|)(weekdayKeys): the first group may be
\* empty, so the pattern starts anywhere; nothing bounds the weekday key
nthWeekdayPattern(t, S, weekdayKeys) ==
    Alt(t, WS0(t, OptAlt(t, Alt(t, S, OrdinalWords), {<<"U+4E00", "U+4E2A">>, <<"U+4E2A">>, <<"o">>})), weekdayKeys)

\* \b(business\s*days?)\b
businessDaysPattern(t, S) ==
    WB(t, OptAlt(t, Lit(t, WS0(t, Lit(t, WB(t, S), <<"b", "u", "s", "i", "n", "e", "s", "s">>)), <<"d", "a", "y">>), {<<"s">>}))

\* \b(last\s+day\s+of\s+the\s+month|eom|end\s+of\s+month|U+00FAltimo\s+dU+00EDa\s+del\s+mes|fin\s+de\s+mes)\b
\* a phrase of words separated by \s+
RECURSIVE Words(_, _, _)
Words(t, S, ws) ==
    IF Len(ws) = 1 THEN Lit(t, S, ws[1])
    ELSE Words(t, WS1(t, Lit(t, S, ws[1])), Tail(ws))

lastDayPattern(t, S) ==
    LET B == WB(t, S)
    IN  WB(t, Words(t, B, <<<<"l", "a", "s", "t">>, <<"d", "a", "y">>, <<"o", "f">>, <<"t", "h", "e">>, <<"m", "o", "n", "t", "h">>>>)
              \cup Lit(t, B, <<"e", "o", "m">>)
              \cup Words(t, B, <<<<"e", "n", "d">>, <<"o", "f">>, <<"m", "o", "n", "t", "h">>>>)
              \cup Words(t, B, <<<<"U+00FA", "l", "t", "i", "m", "o">>, <<"d", "U+00ED", "a">>, <<"d", "e", "l">>, <<"m", "e", "s">>>>)
              \cup Words(t, B, <<<<"f", "i", "n">>, <<"d", "e">>, <<"m", "e", "s">>>>))

\* the detector with the business-day check moved in front of the nth-weekday check
detectBusinessDaysFirst(text, loc) ==
    LET weekdayKeys == KeySet(loc.weekdays)
    IN  IF businessDaysPattern(text, Positions(text)) # {} THEN Some(MsgBusinessDays)
        ELSE IF nthWeekdayPattern(text, Positions(text), weekdayKeys) # {} THEN Some(MsgNthWeekday)
        ELSE IF lastDayPattern(text, Positions(text)) # {} THEN Some(MsgLastDay)
        ELSE null

detectUnsupportedPatterns(text, loc) ==
    LET weekdayKeys == KeySet(loc.weekdays)
    IN  IF nthWeekdayPattern(text, Positions(text), weekdayKeys) # {} THEN Some(MsgNthWeekday)
        ELSE IF businessDaysPattern(text, Positions(text)) # {} THEN Some(MsgBusinessDays)
        ELSE IF lastDayPattern(text, Positions(text)) # {} THEN Some(MsgLastDay)
        ELSE null

-----------------------------------------------------------------------------
(* src/src/parsers.ts: to24Hour, parseTime *)

\* the unspecified hour of a minute-only time (NaN in the program)
NaN == -1

\* ampm is null, Some(<<"a", "m">>) or Some(<<"p", "m">>)
to24Hour(hour12, ampm) ==
    IF ampm = null THEN hour12
    ELSE IF ampm = Some(<<"a", "m">>) THEN hour12 % 12
    ELSE (hour12 % 12) + 12

\* All ways the engine can read (\d{1,2})(?::(\d{2}))?\s*(am|pm)? from position i,
\* each with its rank in the engine's order of trial (0 is tried first): two
\* digits before one, the minutes group before its absence, more whitespace
\* before less, a meridiem before its absence.
ClockParses(t, i) ==
    LET R == Len(t) + 2
    IN  UNION { UNION { UNION { UNION {
          { [ hour   |-> ParseInt(SubSeq(t, i, i + n - 1)),
              minute |-> IF c = 1 THEN Some(ParseInt(SubSeq(t, i + n + 1, i + n + 2))) ELSE null,
              ampm   |-> IF m = 1 THEN Some(SubSeq(t, i + n + 3 * c + k, i + n + 3 * c + k + 1)) ELSE null,
              end    |-> i + n + 3 * c + k + 2 * m,
              rank   |-> (((2 - n) * 2 + (1 - c)) * R + (RunLen(t, i + n + 3 * c, SpaceClass) - k)) * 2 + (1 - m) ] }
          : m \in {x \in {0, 1} : x = 1 => (At(t, i + n + 3 * c + k, <<"a", "m">>) \/ At(t, i + n + 3 * c + k, <<"p", "m">>))} }
          : k \in 0..RunLen(t, i + n + 3 * c, SpaceClass) }
          : c \in {x \in {0, 1} : x = 1 => (At(t, i + n, <<":">>) /\ RunLen(t, i + n + 1, DigitClass) >= 2)} }
          : n \in 1..Min(2, RunLen(t, i, DigitClass)) }

\* the element of a non-empty set of parses the engine finds first
FirstParse(ps) == CHOOSE p \in ps : \A q \in ps : p.rank <= q.rank

\* the first match of /\b(\d{1,2})(?::(\d{2}))?\s*(am|pm)?\b/ in s, or null
explicitTimeMatch(s) ==
    LET ok(i) == {p \in ClockParses(s, i) : IsBoundary(s, p.end)}
        starts == {i \in DOMAIN s : IsBoundary(s, i) /\ ok(i) # {}}
    IN  IF starts = {} THEN null ELSE Some(FirstParse(ok(Least(starts))))

\* the first match of /:(\d{2})\b/ in s: its digits, or null
minuteOnlyMatch(s) ==
    LET starts == {i \in DOMAIN s : s[i] = ":" /\ WB(s, Dig(s, {i + 1}, 2, 2)) # {}}
    IN  IF starts = {} THEN null
        ELSE Some(SubSeq(s, Least(starts) + 1, Least(starts) + 2))

ChinesePeriods == {<<"U+4E0A", "U+5348">>, <<"U+4E0B", "U+5348">>, <<"U+665A", "U+4E0A">>, <<"U+508D", "U+665A">>, <<"U+591C", "U+95F4">>, <<"U+65E9", "U+4E0A">>}

\* All ways to read (U+4E0AU+5348|U+4E0BU+5348|U+665AU+4E0A|U+508DU+665A|U+591CU+95F4|U+65E9U+4E0A)?(\d{1,2})U+70B9(U+534A|(\d{1,2})U+5206?)? from
\* position i.  The period and the hour are forced by the text; the tail is
\* greedy: U+534A if it is there, else as many minute digits as there are (at most
\* two) and U+5206 if it follows.
chineseTimeTail(t, i, per, n, ban, md) ==
    Some([ period |-> IF per = 2 THEN Some(SubSeq(t, i, i + 1)) ELSE null,
           hour   |-> ParseInt(SubSeq(t, i + per, i + per + n - 1)),
           isBan  |-> ban,
           minute |-> IF ~ban /\ md > 0
                      THEN Some(ParseInt(SubSeq(t, i + per + n + 1, i + per + n + md))) ELSE null,
           end    |-> IF ban THEN i + per + n + 2
                      ELSE i + per + n + 1 + md
                           + (IF md > 0 /\ At(t, i + per + n + 1 + md, <<"U+5206">>) THEN 1 ELSE 0) ])

chineseTimeHour(t, i, per, ns) ==
    IF ns = {} THEN null
    ELSE chineseTimeTail(t, i, per, Least(ns), At(t, i + per + Least(ns) + 1, <<"U+534A">>),
                         Min(2, RunLen(t, i + per + Least(ns) + 1, DigitClass)))

chineseTimeFrom(t, i, per) ==
    chineseTimeHour(t, i, per,
                    {n \in 1..Min(2, RunLen(t, i + per, DigitClass)) : At(t, i + per + n, <<"U+70B9">>)})

chineseTimeAt(t, i) ==
    chineseTimeFrom(t, i, IF \E w \in ChinesePeriods : At(t, i, w) THEN 2 ELSE 0)

\* the first match of the pattern in s, or null
chineseTimeMatch(s) ==
    LET starts == {i \in DOMAIN s : chineseTimeAt(s, i) # null}
    IN  IF starts = {} THEN null ELSE chineseTimeAt(s, Least(starts))

Includes(s, w) == Lit(s, Positions(s), w) # {}

\* ParsedTime: [hour24, minute]; the result is Some(ParsedTime) or null
chineseTimeOf(cm) ==
    IF cm = null THEN null
    ELSE LET period == cm[1].period
             hour == IF period \in {Some(<<"U+4E0B", "U+5348">>), Some(<<"U+665A", "U+4E0A">>), Some(<<"U+508D", "U+665A">>), Some(<<"U+591C", "U+95F4">>)}
                        /\ cm[1].hour < 12
                     THEN cm[1].hour + 12
                     ELSE IF period \in {Some(<<"U+4E0A", "U+5348">>), Some(<<"U+65E9", "U+4E0A">>)} /\ cm[1].hour = 12
                          THEN 0
                          ELSE cm[1].hour
             minute == IF cm[1].isBan THEN 30
                       ELSE IF cm[1].minute # null THEN cm[1].minute[1] ELSE 0
         IN  IF hour >= 0 /\ hour <= 23 /\ minute >= 0 /\ minute <= 59
             THEN Some([hour24 |-> hour, minute |-> minute])
             ELSE null

explicitTimeOf(em) ==
    IF em = null THEN null
    ELSE LET parsedHour == to24Hour(em[1].hour, em[1].ampm)
             parsedMinute == IF em[1].minute # null THEN em[1].minute[1] ELSE 0
         IN  IF parsedHour >= 0 /\ parsedHour <= 23 /\ parsedMinute >= 0 /\ parsedMinute <= 59
             THEN Some([hour24 |-> parsedHour, minute |-> parsedMinute])
             ELSE null

minuteOnlyOf(mm) ==
    IF mm # null /\ ParseInt(mm[1]) >= 0 /\ ParseInt(mm[1]) <= 59
    THEN Some([hour24 |-> NaN, minute |-> ParseInt(mm[1])])
    ELSE null

\* a, unless it is null
OrElse(a, b) == IF a # null THEN a ELSE b

parseTrimmed(s) ==
    IF Includes(s, <<"U+96F6", "U+70B9">>) \/ Includes(s, <<"U+5348", "U+591C">>) \/ Includes(s, <<"U+51CC", "U+6668">>)
    THEN Some([hour24 |-> 0, minute |-> 0])
    ELSE IF Includes(s, <<"U+4E2D", "U+5348">>) \/ Includes(s, <<"U+6B63", "U+5348">>)
    THEN Some([hour24 |-> 12, minute |-> 0])
    ELSE OrElse(chineseTimeOf(chineseTimeMatch(s)),
                OrElse(explicitTimeOf(explicitTimeMatch(s)), minuteOnlyOf(minuteOnlyMatch(s))))

parseTime(timeString) == parseTrimmed(Trim(timeString))
-----------------------------------------------------------------------------
(* src/unnamed/part_002: matchPatterns *)

EndsWith(t, w) == Len(t) >= Len(w) /\ SubSeq(t, Len(t) - Len(w) + 1, Len(t)) = w
StartsWith(t, w) == At(t, 1, w)

\* Months: a key counts between spaces, after a space at the end, or before a
\* space at the start; then quarterly adds 1,4,7,10
selectedMonthsOf(t, loc) ==
    LET hit(kv) == \/ Includes(t, <<" ">> \o kv[1] \o <<" ">>)
                   \/ EndsWith(t, <<" ">> \o kv[1])
                   \/ StartsWith(t, kv[1] \o <<" ">>)
        named == SelectSeq(loc.months, hit)
        quarterlyPattern == Alt(t, Positions(t), Range(loc.keywords.quarterly)) # {}
    IN  [i \in DOMAIN named |-> named[i][2]]
        \o (IF quarterlyPattern THEN <<1, 4, 7, 10>> ELSE <<>>)

\* \b(de|del)\s+(keys)\s+(a|al)\s+(keys)\b started at i: the pairs of key
\* indices <<k1, k2>> for which it matches
weekdayRangeAt(t, i, weekdays) ==
    LET A == WS1(t, Alt(t, WB(t, {i}), {<<"d", "e">>, <<"d", "e", "l">>}))
        mid(k1) == WS1(t, Alt(t, WS1(t, Lit(t, A, weekdays[k1][1])), {<<"a">>, <<"a", "l">>}))
    IN  {kk \in (DOMAIN weekdays) \X (DOMAIN weekdays) :
            WB(t, Lit(t, mid(kk[1]), weekdays[kk[2]][1])) # {}}

\* normalizedText.match(weekdayRangePattern): the captured keys' indices, or null
rangeMatch(t, weekdays) ==
    LET starts == {i \in DOMAIN t : At(t, i, <<"d", "e">>) /\ weekdayRangeAt(t, i, weekdays) # {}}
        found == weekdayRangeAt(t, Least(starts), weekdays)
    IN  IF starts = {} THEN null
        ELSE Some(CHOOSE kk \in found : \A other \in found :
                    \/ kk[1] < other[1]
                    \/ (kk[1] = other[1] /\ kk[2] <= other[2]))

\* the numbers a..b in ascending order
Interval(a, b) == [i \in 1..(b - a + 1) |-> a + i - 1]

\* matchAll of (keys) with the g flag from position p: at each position the
\* first key of the table that stands there matches, and the scan goes on
\* after it; no boundary is required around a key
RECURSIVE weekdayMatches(_, _, _)
weekdayMatches(t, p, weekdays) ==
    LET found == {q \in p..Len(t) : \E k \in DOMAIN weekdays : At(t, q, weekdays[k][1])}
        key == weekdays[Least({k \in DOMAIN weekdays : At(t, Least(found), weekdays[k][1])})]
    IN  IF found = {} THEN <<>>
        ELSE <<key[2]>> \o weekdayMatches(t, Least(found) + Len(key[1]), weekdays)

\* a range that is read from the smaller to the larger day, never around the
\* end of the week
selectedWeekdaysNoWrap(t, loc) ==
    LET rm == rangeMatch(t, loc.weekdays)
        startDay == loc.weekdays[rm[1][1]][2]
        endDay == loc.weekdays[rm[1][2]][2]
    IN  IF rm # null
        THEN IF startDay <= endDay THEN Interval(startDay, endDay)
             ELSE Interval(endDay, startDay)
        ELSE weekdayMatches(t, 1, loc.weekdays)

selectedWeekdaysOf(t, loc) ==
    LET rm == rangeMatch(t, loc.weekdays)
        startDay == loc.weekdays[rm[1][1]][2]
        endDay == loc.weekdays[rm[1][2]][2]
    IN  IF rm # null
        THEN IF startDay <= endDay THEN Interval(startDay, endDay)
             ELSE Interval(startDay, 6) \o Interval(0, endDay)
        ELSE weekdayMatches(t, 1, loc.weekdays)

\* /\bon\s+the\s+(\d{1,2})(st|nd|rd|th)?\b/ started at i: every way it matches,
\* with the captured day and the rank of the way in the engine's order
onTheNthAt(t, i) ==
    LET A == WS1(t, Lit(t, WS1(t, Lit(t, WB(t, {i}), <<"o", "n">>)), <<"t", "h", "e">>))
    IN  UNION { UNION { UNION {
          { [ val  |-> ParseInt(SubSeq(t, p, p + n - 1)),
              end  |-> p + n + 2 * x,
              rank |-> (2 - n) * 2 + (1 - x) ] }
          : x \in {y \in {0, 1} :
                   /\ (y = 1 => Alt(t, {p + n}, {<<"s", "t">>, <<"n", "d">>, <<"r", "d">>, <<"t", "h">>}) # {})
                   /\ IsBoundary(t, p + n + 2 * y)} }
          : n \in 1..Min(2, RunLen(t, p, DigitClass)) }
          : p \in A }

\* /\b(el|los)\s+(dU+00EDa\s+)?(\d{1,2})(U+00BA|o)?\b/ started at i, likewise
elDiaAt(t, i) ==
    LET A == WS1(t, Alt(t, WB(t, {i}), {<<"e", "l">>, <<"l", "o", "s">>}))
        B == A \cup WS1(t, Lit(t, A, <<"d", "U+00ED", "a">>))
    IN  UNION { UNION { UNION {
          { [ val  |-> ParseInt(SubSeq(t, p, p + n - 1)),
              end  |-> p + n + x,
              rank |-> (2 - n) * 2 + (1 - x) ] }
          : x \in {y \in {0, 1} :
                   /\ (y = 1 => Alt(t, {p + n}, {<<"U+00BA">>, <<"o">>}) # {})
                   /\ IsBoundary(t, p + n + y)} }
          : n \in 1..Min(2, RunLen(t, p, DigitClass)) }
          : p \in B }

SpanishPeriods == {<<"m", "a", "U+00F1", "a", "n", "a">>, <<"m", "a", "d", "r", "u", "g", "a", "d", "a">>, <<"t", "a", "r", "d", "e">>, <<"n", "o", "c", "h", "e">>}

\* (at)\s+(((?:la\s+)?\d{1,2})(?:[.:]\d{2})?\s*(?:am|pm|de\s+la\s+(?:maU+00F1ana|madrugada|tarde|noche))?)
\* started at i after the lead-in word w: everything after the hour digits is
\* optional, so the greedy reading is the match.  val is capture group 2.
westernTimeEnd(t, m) ==
    LET dela == Alt(t, WS1(t, Lit(t, WS1(t, Lit(t, {m}, <<"d", "e">>)), <<"l", "a">>)), SpanishPeriods)
    IN  IF At(t, m, <<"a", "m">>) \/ At(t, m, <<"p", "m">>) THEN m + 2
        ELSE IF dela # {} THEN Least(dela)
        ELSE m

\* d: the position after the hour digits
westernTimeTail(t, d) ==
    LET c == IF (At(t, d, <<".">>) \/ At(t, d, <<":">>)) /\ RunLen(t, d + 1, DigitClass) >= 2
             THEN 3 ELSE 0
    IN  westernTimeEnd(t, d + c + RunLen(t, d + c, SpaceClass))

\* g: the start of capture group 2; r: the blanks after a leading "la"
westernTimeHour(t, g, r) ==
    LET la == IF At(t, g, <<"l", "a">>) /\ r >= 1 /\ RunLen(t, g + 2 + r, DigitClass) >= 1
              THEN 2 + r ELSE 0
        n  == Min(2, RunLen(t, g + la, DigitClass))
    IN  IF n >= 1
        THEN Some([val |-> g, end |-> westernTimeTail(t, g + la + n)])
        ELSE null

westernTimeSpan(t, span) ==
    IF span = null THEN null
    ELSE Some([val |-> SubSeq(t, span[1].val, span[1].end - 1), end |-> span[1].end])

westernTimeFrom(t, g) == westernTimeSpan(t, westernTimeHour(t, g, RunLen(t, g + 2, SpaceClass)))

westernTimeAfter(t, i, w) ==
    IF At(t, i, w) /\ RunLen(t, i + Len(w), SpaceClass) >= 1
    THEN westernTimeFrom(t, i + Len(w) + RunLen(t, i + Len(w), SpaceClass))
    ELSE null

\* the lead-in words are tried in the order of the locale's list
westernTimeAt(t, i, atWords) ==
    LET ok == {k \in DOMAIN atWords : westernTimeAfter(t, i, atWords[k]) # null}
    IN  IF ok = {} THEN null ELSE westernTimeAfter(t, i, atWords[Least(ok)])

\* /\b(\d{1,2})(?:[.:](\d{2}))?\s*(?:de\s+la\s+)?(maU+00F1ana|madrugada|tarde|noche)\b/
\* started at i; the period word can stand at one place only, so the end of the
\* match is determined.  val is the whole match.
spanishTimeAt(t, i) ==
    LET D    == Dig(t, WB(t, {i}), 1, 2)
        C    == D \cup Dig(t, Alt(t, D, {<<".">>, <<":">>}), 2, 2)
        W    == WS0(t, C)
        L    == W \cup WS1(t, Lit(t, WS1(t, Lit(t, W, <<"d", "e">>)), <<"l", "a">>))
        ends == WB(t, Alt(t, L, SpanishPeriods))
    IN  IF ends = {} THEN null
        ELSE Some([val |-> SubSeq(t, i, Least(ends) - 1), end |-> Least(ends)])

ChineseKeywordTimes == {<<"U+96F6", "U+70B9">>, <<"U+5348", "U+591C">>, <<"U+51CC", "U+6668">>, <<"U+4E2D", "U+5348">>, <<"U+6B63", "U+5348">>}

\* one attempt of a g-flag pattern at position i: null, or Some([val, end])
ParsedMatch(ps) ==
    IF ps = {} THEN null ELSE Some([val |-> FirstParse(ps).val, end |-> FirstParse(ps).end])

ChineseMatch(t, i, m) ==
    IF m = null THEN null ELSE Some([val |-> SubSeq(t, i, m[1].end - 1), end |-> m[1].end])

MatchAt(kind, t, i, loc) ==
    CASE kind = "onTheNth" -> ParsedMatch(onTheNthAt(t, i))
      [] kind = "elDia" -> ParsedMatch(elDiaAt(t, i))
      [] kind = "chineseExplicit" -> ChineseMatch(t, i, chineseTimeAt(t, i))
      [] kind = "chineseKeyword" ->
            IF \E w \in ChineseKeywordTimes : At(t, i, w)
            THEN Some([val |-> SubSeq(t, i, i + 1), end |-> i + 2])
            ELSE null
      [] kind = "western" -> westernTimeAt(t, i, loc.keywords.at)
      [] kind = "spanish" -> spanishTimeAt(t, i)

\* String.prototype.matchAll: the matches from position p on, left to right,
\* each search resuming where the previous match ended
RECURSIVE MatchAll(_, _, _, _)
MatchNext(kind, t, p, loc, m) ==
    IF m = null THEN MatchAll(kind, t, p + 1, loc)
    ELSE <<[index |-> p, end |-> m[1].end, val |-> m[1].val]>>
         \o MatchAll(kind, t, Max(m[1].end, p + 1), loc)

MatchAll(kind, t, p, loc) ==
    LET found == {q \in p..Len(t) : MatchAt(kind, t, q, loc) # null}
    IN  IF found = {} THEN <<>>
        ELSE MatchNext(kind, t, Least(found), loc, MatchAt(kind, t, Least(found), loc))

\* Day of month: the English matches, then the Spanish ones
selectedMonthDaysOf(t, loc) ==
    LET ms == MatchAll("onTheNth", t, 1, loc) \o MatchAll("elDia", t, 1, loc)
    IN  [i \in DOMAIN ms |-> ms[i].val]

\* (every)\s*(\d+)\s*(unit) started at i: the captured digits, or null
everyNAt(t, i, everyWords, unitWords) ==
    LET after(k) == i + Len(everyWords[k])
        d(k)     == after(k) + RunLen(t, after(k), SpaceClass)
        n(k)     == RunLen(t, d(k), DigitClass)
        ok       == {k \in DOMAIN everyWords :
                        /\ At(t, i, everyWords[k])
                        /\ n(k) >= 1
                        /\ Alt(t, WS0(t, {d(k) + n(k)}), Range(unitWords)) # {}}
    IN  IF ok = {} THEN null
        ELSE Some(SubSeq(t, d(Least(ok)), d(Least(ok)) + n(Least(ok)) - 1))

\* normalizedText.match(everyN...Pattern): the digits of the first match, or null
everyNMatch(t, everyWords, unitWords) ==
    LET starts == {i \in DOMAIN t : everyNAt(t, i, everyWords, unitWords) # null}
    IN  IF starts = {} THEN null ELSE everyNAt(t, Least(starts), everyWords, unitWords)

\* /\bat\s*:(\d{2})\s*(past\s+)?(each|every)\s+hour\b/: the digits of the first
\* match, or null
atPastEachHourMatch(t) ==
    LET colon(i) == i + 2 + RunLen(t, i + 2, SpaceClass)
        ok(i) == /\ IsBoundary(t, i) /\ At(t, i, <<"a", "t">>)
                 /\ At(t, colon(i), <<":">>)
                 /\ RunLen(t, colon(i) + 1, DigitClass) >= 2
                 /\ LET e == colon(i) + 3
                        a == WS0(t, {e})
                        b == a \cup WS1(t, Lit(t, a, <<"p", "a", "s", "t">>))
                    IN  WB(t, Lit(t, WS1(t, Alt(t, b, {<<"e", "a", "c", "h">>, <<"e", "v", "e", "r", "y">>})), <<"h", "o", "u", "r">>)) # {}
        starts == {i \in DOMAIN t : ok(i)}
    IN  IF starts = {} THEN null
        ELSE Some(SubSeq(t, colon(Least(starts)) + 1, colon(Least(starts)) + 2))

\* \b(between)\s+(?:las\s+)?(\d{1,2})(?::(\d{2}))?\s*(am|pm)?\s+(and)\s+(?:las\s+)?
\* (\d{1,2})(?::(\d{2}))?\s*(am|pm)?\b started at i: the pairs of clock readings
\* for which it matches
betweenWindowAt(t, i, loc) ==
    LET lead(S, ws) == LET x == WS1(t, Alt(t, S, ws)) IN x \cup WS1(t, Lit(t, x, <<"l", "a", "s">>))
        A == lead(WB(t, {i}), Range(loc.keywords.between))
        firsts == UNION {ClockParses(t, a) : a \in A}
        seconds(c1) == UNION {ClockParses(t, b) : b \in lead(WS1(t, {c1.end}), Range(loc.keywords.and))}
    IN  UNION { {[c1 |-> c1, c2 |-> c2] : c2 \in {c \in seconds(c1) : IsBoundary(t, c.end)}}
                : c1 \in firsts }

\* normalizedText.match(betweenWindowPattern): the first match's captures, or null
FirstWindow(found) ==
    CHOOSE m \in found : \A o \in found :
        \/ m.c1.rank < o.c1.rank
        \/ (m.c1.rank = o.c1.rank /\ m.c2.rank <= o.c2.rank)

betweenWindowMatch(t, loc) ==
    LET starts == {i \in DOMAIN t : IsBoundary(t, i) /\ betweenWindowAt(t, i, loc) # {}}
    IN  IF starts = {} THEN null
        ELSE Some(FirstWindow(betweenWindowAt(t, Least(starts), loc)))

\* the window with its bounds in the order of the text
WindowRangeAsGiven(startHour, endHour) ==
    NumToString(startHour) \o <<"-">> \o NumToString(endHour)

WindowRange(startHour, endHour) ==
    NumToString(Min(startHour, endHour)) \o <<"-">> \o NumToString(Max(startHour, endHour))

HourWindow(m) ==
    IF m = null THEN null
    ELSE Some(WindowRange(to24Hour(m[1].c1.hour, m[1].c1.ampm),
                          to24Hour(m[1].c2.hour, m[1].c2.ampm)))

hourWindowRangeOf(t, loc) == HourWindow(betweenWindowMatch(t, loc))

\* .map(parseTime).filter(Boolean)
RECURSIVE ParseAll(_)
ParseAll(ms) ==
    IF ms = <<>> THEN <<>> ELSE parseTime(Head(ms).val) \o ParseAll(Tail(ms))

chineseParsedTimes(t, loc) ==
    LET explicitMatches == MatchAll("chineseExplicit", t, 1, loc)
        keywordMatches == MatchAll("chineseKeyword", t, 1, loc)
        near(kw) == \E x \in DOMAIN explicitMatches :
                        /\ kw.index <= explicitMatches[x].end + 2
                        /\ kw.end >= explicitMatches[x].index - 2
        filteredKeywords == SelectSeq(keywordMatches, LAMBDA kw : ~near(kw))
    IN  ParseAll(explicitMatches) \o ParseAll(filteredKeywords)

westernParsedTimes(t, loc) == ParseAll(MatchAll("western", t, 1, loc))

spanishParsedTimes(t, loc) == ParseAll(MatchAll("spanish", t, 1, loc))

\* the interval taken as written
ClampNone(lo, hi, n) == n

Clamp(lo, hi, n) == Max(lo, Min(hi, n))

matchPatterns(t, loc) ==
    LET nm == everyNMatch(t, loc.keywords.every, loc.keywords.minute)
        nh == everyNMatch(t, loc.keywords.every, loc.keywords.hour)
        ap == atPastEachHourMatch(t)
    IN  [ selectedMonths    |-> selectedMonthsOf(t, loc),
          selectedWeekdays  |-> selectedWeekdaysOf(t, loc),
          selectedMonthDays |-> selectedMonthDaysOf(t, loc),
          parsedTimes       |-> chineseParsedTimes(t, loc)
                                \o westernParsedTimes(t, loc)
                                \o spanishParsedTimes(t, loc),
          hourWindowRange   |-> hourWindowRangeOf(t, loc),
          everyNMinutes     |-> IF nm = null THEN null ELSE Some(Clamp(1, 59, ParseInt(nm[1]))),
          everyNHours       |-> IF nh = null THEN null ELSE Some(Clamp(1, 23, ParseInt(nh[1]))),
          atPastEachHour    |-> IF ap = null THEN null ELSE Some(ParseInt(ap[1])) ]

-----------------------------------------------------------------------------
(* src/src/cron-builder.ts: listToCron, buildCronFields, formatCron *)

\* [...new Set(list)].sort((a, b) => a - b)
RECURSIVE SortedSeq(_)
SortedSeq(S) ==
    IF S = {} THEN <<>>
    ELSE LET least == CHOOSE x \in S : \A y \in S : x <= y
         IN  <<least>> \o SortedSeq(S \ {least})

\* numbers.join(",")
RECURSIVE JoinNumbers(_)
JoinNumbers(ns) ==
    IF ns = <<>> THEN <<>>
    ELSE IF Len(ns) = 1 THEN NumToString(ns[1])
    ELSE NumToString(ns[1]) \o <<",">> \o JoinNumbers(Tail(ns))

\* the list joined as it was extracted, neither sorted nor freed of duplicates
listToCronAsExtracted(numberList, maxValue) ==
    IF Len(numberList) = 0 THEN <<"*">>
    ELSE IF Len(numberList) = maxValue THEN <<"*">>
    ELSE JoinNumbers(numberList)

\* allowStar keeps its default, true, at every call site
listToCron(numberList, maxValue) ==
    LET uniqueSorted == SortedSeq(Range(numberList))
    IN  IF Len(numberList) = 0 THEN <<"*">>
        ELSE IF Len(uniqueSorted) = maxValue THEN <<"*">>
        ELSE JoinNumbers(uniqueSorted)

\* a substring pattern (w1|w2|...) without boundaries
ContainsAny(t, ws) == Alt(t, Positions(t), Range(ws)) # {}

\* \b(every)\s+(unit)\b
everyUnitPattern(t, loc, unitWords) ==
    WB(t, Alt(t, WS1(t, Alt(t, WB(t, Positions(t)), Range(loc.keywords.every))), Range(unitWords))) # {}

\* \b(every)\s+(\d+)\s*(minute)\b
everyMinutesWindowPattern(t, loc) ==
    WB(t, Alt(t, WS0(t, DigPlus(t, WS1(t, Alt(t, WB(t, Positions(t)), Range(loc.keywords.every))))),
              Range(loc.keywords.minute))) # {}

\* (every)\s+(hour)|(hourly)
everyHourWindowPattern(t, loc) ==
    \/ Alt(t, WS1(t, Alt(t, Positions(t), Range(loc.keywords.every))), Range(loc.keywords.hour)) # {}
    \/ ContainsAny(t, loc.keywords.hourly)

\* /\bon\s+the\s+\d{1,2}(st|nd|rd|th)?\b/.test
onTheNthPattern(t) == \E i \in DOMAIN t : onTheNthAt(t, i) # {}

\* the hour written as the number stands, an unspecified hour included
HourStringRaw(hour24) == IF hour24 = NaN THEN <<"N", "a", "N">> ELSE NumToString(hour24)

HourString(hour24) == IF hour24 = NaN THEN <<"*">> ELSE NumToString(hour24)

\* a week recurrence that leaves a day-of-week already set
weekStartIfUnset(f) == IF f.dayOfWeek = <<"*">> THEN [f EXCEPT !.dayOfWeek = <<"0">>] ELSE f

\* dayOfWeekField = "0"
weekStart(f) == [f EXCEPT !.dayOfWeek = <<"0">>]

\* dayOfMonthField = "1"
monthStart(f) == [f EXCEPT !.dayOfMonth = <<"1">>]

\* time keywords that yield to a minute and hour already set
timeKeywordsIfUnset(f, atMidnight, atNoon) ==
    IF f.minute # <<"*">> \/ f.hour # <<"*">> THEN f
    ELSE IF atNoon THEN [f EXCEPT !.minute = <<"0">>, !.hour = <<"1", "2">>]
    ELSE IF atMidnight THEN [f EXCEPT !.minute = <<"0">>, !.hour = <<"0">>]
    ELSE f

\* the midnight test and assignment, then the noon test and assignment
timeKeywords(f, atMidnight, atNoon) ==
    IF atNoon THEN [f EXCEPT !.minute = <<"0">>, !.hour = <<"1", "2">>]
    ELSE IF atMidnight THEN [f EXCEPT !.minute = <<"0">>, !.hour = <<"0">>]
    ELSE f

\* a final guard that changes nothing
dayOfMonthOverWeekdayOff(f, onTheNth, weekdaysSelected) == f

\* DOM + DOW heuristic
dayOfMonthOverWeekday(f, onTheNth, weekdaysSelected) ==
    IF f.dayOfMonth # <<"*">> /\ onTheNth /\ ~weekdaysSelected
    THEN [f EXCEPT !.dayOfWeek = <<"*">>] ELSE f

\* cronned always passes the locale, so every pattern is the locale-built one.
\* The assignments are applied in the order of the source.
buildCronFields(t, m, loc) ==
    LET kw == loc.keywords
        star == <<"*">>
        defaults(f) == f.hour = star /\ f.minute = star
        midnightStart(f) == IF defaults(f)
                            THEN [f EXCEPT !.minute = <<"0">>, !.hour = <<"0">>] ELSE f
        initial == [minute |-> star, hour |-> star, dayOfMonth |-> star, month |-> star,
                    dayOfWeek |-> star]
        \* Months
        months(f) == IF Len(m.selectedMonths) # 0
                     THEN [f EXCEPT !.month = listToCron(m.selectedMonths, 12)] ELSE f
        \* Weekdays
        weekdayWord(f) == IF ContainsAny(t, kw.weekday) THEN [f EXCEPT !.dayOfWeek = <<"1", "-", "5">>] ELSE f
        weekendWord(f) == IF ContainsAny(t, kw.weekend) THEN [f EXCEPT !.dayOfWeek = <<"0", ",", "6">>] ELSE f
        weekdays(f) == IF Len(m.selectedWeekdays) # 0
                       THEN [f EXCEPT !.dayOfWeek = listToCron(m.selectedWeekdays, 7)] ELSE f
        \* Day of month
        monthDays(f) == IF Len(m.selectedMonthDays) # 0
                        THEN [f EXCEPT !.dayOfMonth = listToCron(m.selectedMonthDays, 31)] ELSE f
        \* Every N minutes/hours
        everyNMinutes(f) == IF m.everyNMinutes # null
                            THEN [f EXCEPT !.minute = <<"*", "/">> \o NumToString(m.everyNMinutes[1])]
                            ELSE f
        everyNHours(f) == IF m.everyNHours # null
                          THEN [f EXCEPT !.hour = <<"*", "/">> \o NumToString(m.everyNHours[1]),
                                         !.minute = IF f.minute = star THEN <<"0">> ELSE f.minute]
                          ELSE f
        \* Simple recurring patterns without numbers
        everyMinute(f) == IF everyUnitPattern(t, loc, kw.minute)
                          THEN [f EXCEPT !.minute = star, !.hour = star] ELSE f
        everyHour(f) == IF everyUnitPattern(t, loc, kw.hour)
                        THEN [f EXCEPT !.minute = <<"0">>, !.hour = star] ELSE f
        everyDay(f) == IF everyUnitPattern(t, loc, kw.day) THEN midnightStart(f) ELSE f
        everyWeek(f) == IF everyUnitPattern(t, loc, kw.week)
                        THEN weekStart(midnightStart(f)) ELSE f
        everyMonth(f) == IF everyUnitPattern(t, loc, kw.month)
                         THEN monthStart(midnightStart(f)) ELSE f
        \* Simple frequency words
        hourly(f) == IF ContainsAny(t, kw.hourly) /\ f.minute = star
                     THEN [f EXCEPT !.minute = <<"0">>, !.hour = star] ELSE f
        daily(f) == IF ContainsAny(t, kw.daily) THEN midnightStart(f) ELSE f
        weekly(f) == IF ContainsAny(t, kw.weekly)
                     THEN weekStart(midnightStart(f)) ELSE f
        monthly(f) == IF ContainsAny(t, kw.monthly)
                      THEN monthStart(midnightStart(f)) ELSE f
        \* "at :mm past every hour"
        pastEachHour(f) == IF m.atPastEachHour # null
                           THEN [f EXCEPT !.minute = NumToString(m.atPastEachHour[1]),
                                          !.hour = star]
                           ELSE f
        \* Specific time(s)
        oneTime(f) == IF Len(m.parsedTimes) = 1
                      THEN [f EXCEPT !.minute = NumToString(m.parsedTimes[1].minute),
                                     !.hour = HourString(m.parsedTimes[1].hour24)]
                      ELSE f
        \* Time keywords
        keywordTime(f) == timeKeywords(f, ContainsAny(t, kw.midnight), ContainsAny(t, kw.noon))
        \* Windows + cadence
        window(f) == IF m.hourWindowRange # null /\ everyMinutesWindowPattern(t, loc)
                     THEN [f EXCEPT !.hour = m.hourWindowRange[1]]
                     ELSE IF m.hourWindowRange # null /\ everyHourWindowPattern(t, loc)
                     THEN [f EXCEPT !.hour = m.hourWindowRange[1]]
                     ELSE IF m.hourWindowRange # null /\ Len(m.parsedTimes) = 0
                     THEN [f EXCEPT !.hour = m.hourWindowRange[1], !.minute = star]
                     ELSE f
        \* DOM + DOW heuristic
        guard(f) == dayOfMonthOverWeekday(f, onTheNthPattern(t), Len(m.selectedWeekdays) # 0)
    IN  guard(window(keywordTime(oneTime(pastEachHour(
        monthly(weekly(daily(hourly(
        everyMonth(everyWeek(everyDay(everyHour(everyMinute(
        everyNHours(everyNMinutes(monthDays(weekdays(weekendWord(weekdayWord(months(
        initial)))))))))))))))))))))

formatCron(fields) ==
    fields.minute \o <<" ">> \o fields.hour \o <<" ">> \o fields.dayOfMonth
    \o <<" ">> \o fields.month \o <<" ">> \o fields.dayOfWeek

-----------------------------------------------------------------------------
(* src/unnamed/part_001: cronned *)

MsgNotUnderstood == "Could not understand the input. Please use natural language like 'every monday at 9am'."
MsgNoValidCron == "Could not construct a valid cron from the given text."

\* \b(every|hourly|daily|...|month)\b over the locale's keyword lists
keywordPattern(t, loc) ==
    LET kw == loc.keywords
        all == Range(kw.every) \cup Range(kw.hourly) \cup Range(kw.daily)
               \cup Range(kw.weekly) \cup Range(kw.monthly) \cup Range(kw.weekday)
               \cup Range(kw.weekend) \cup Range(kw.midnight) \cup Range(kw.noon)
               \cup Range(kw.minute) \cup Range(kw.hour) \cup Range(kw.day)
               \cup Range(kw.week) \cup Range(kw.month)
    IN  WB(t, Alt(t, WB(t, Positions(t)), all)) # {}

\* the signal check without the keyword test
hasAnyMatchCuesOnly(t, m, loc) ==
    \/ Len(m.selectedMonths) > 0
    \/ Len(m.selectedWeekdays) > 0
    \/ Len(m.selectedMonthDays) > 0
    \/ Len(m.parsedTimes) > 0
    \/ m.hourWindowRange # null
    \/ m.everyNMinutes # null
    \/ m.everyNHours # null
    \/ m.atPastEachHour # null

hasAnyMatch(t, m, loc) ==
    \/ Len(m.selectedMonths) > 0
    \/ Len(m.selectedWeekdays) > 0
    \/ Len(m.selectedMonthDays) > 0
    \/ Len(m.parsedTimes) > 0
    \/ m.hourWindowRange # null
    \/ m.everyNMinutes # null
    \/ m.everyNHours # null
    \/ m.atPastEachHour # null
    \/ keywordPattern(t, loc)

\* [*\d/,\-/]
CronChars == DigitClass \cup {"*", "/", ",", "-"}

\* /^[*\d/,\-/]+ [*\d/,\-/]+ [*\d/,\-/]+ [*\d/,\-/]+ [*\d/,\-/]+$/.test(line)
validCronPattern(line) ==
    LET gaps == {i \in DOMAIN line : line[i] = " "}
    IN  /\ Cardinality(gaps) = 4
        /\ \A i \in DOMAIN line : line[i] \in CronChars \cup {" "}
        /\ \A i \in gaps : i > 1 /\ i < Len(line) /\ line[i - 1] # " " /\ line[i + 1] # " "

\* one cron line of the multiple-time branch
timeLine(time, fields) ==
    NumToString(time.minute) \o <<" ">> \o HourString(time.hour24) \o <<" ">>
    \o fields.dayOfMonth \o <<" ">> \o fields.month \o <<" ">> \o fields.dayOfWeek

\* the multiple-time branch: one line per time over the shared fields
multipleTimes(times, fields) == [crons |-> [i \in DOMAIN times |-> timeLine(times[i], fields)]]

\* the single-expression path from the compiled line on
singleExpression(compiledCron) ==
    IF ~validCronPattern(compiledCron) THEN [unsupported |-> MsgNoValidCron]
    ELSE [crons |-> <<compiledCron>>]

\* the result without the multiple-time branch: several times fall through to
\* the single-expression path
cronResultSinglePath(t, m, loc) ==
    IF ~hasAnyMatch(t, m, loc) THEN [unsupported |-> MsgNotUnderstood]
    ELSE singleExpression(formatCron(buildCronFields(t, m, loc)))

\* the result with the multiple-time branch taken whenever the number of times
\* is not one
cronResultNotOne(t, m, loc) ==
    IF ~hasAnyMatch(t, m, loc) THEN [unsupported |-> MsgNotUnderstood]
    ELSE IF Len(m.parsedTimes) # 1
    THEN multipleTimes(m.parsedTimes,
                       buildCronFields(t, [m EXCEPT !.parsedTimes = <<>>], loc))
    ELSE singleExpression(formatCron(buildCronFields(t, m, loc)))

\* the result of the call once the patterns are matched
cronResult(t, m, loc) ==
    IF ~hasAnyMatch(t, m, loc) THEN [unsupported |-> MsgNotUnderstood]
    ELSE IF Len(m.parsedTimes) > 1
    THEN multipleTimes(m.parsedTimes,
                       buildCronFields(t, [m EXCEPT !.parsedTimes = <<>>], loc))
    ELSE singleExpression(formatCron(buildCronFields(t, m, loc)))

\* the call from the detector's verdict on; the matches are null when the
\* detector refuses before matching
cronnedAfterDetect(t, loc, unsupportedMessage, m) ==
    IF unsupportedMessage # null
    THEN [normalizedText |-> t, matches |-> null,
          result |-> [unsupported |-> unsupportedMessage[1]]]
    ELSE [normalizedText |-> t, matches |-> Some(m), result |-> cronResult(t, m, loc)]

cronnedNormalized(t, loc) ==
    cronnedAfterDetect(t, loc, detectUnsupportedPatterns(t, loc), matchPatterns(t, loc))

TypeError == "TypeError"

\* the call on a resolved locale: Object.keys(locale.weekdays) throws when the
\* value resolved is not a bundle
cronnedWith(t, loc) ==
    IF "weekdays" \in DOMAIN loc
    THEN cronnedNormalized(t, loc)
    ELSE [normalizedText |-> t, matches |-> null, result |-> [threw |-> TypeError]]

\* the call with its locals: the normalized text, the matches and the returned
\* value or the error thrown
cronned(text, localeCode) == cronnedWith(normalizeInput(text), getLocale(localeCode))

-----------------------------------------------------------------------------
(* The caller: types a text phrase by phrase, then calls cronned once *)

MaxPhrases == 3

\* phrases around explicit times and the cues that share a line with them
TimePhrases ==
    { <<"a", "t", " ", "9", "a", "m">>, <<"a", "t", " ", "5", "p", "m">>, <<"a", "n", "d", " ", "5", "p", "m">>, <<"o", "n", " ", "w", "e", "e", "k", "d", "a", "y", "s">>, <<"a", "t", " ", "8", " ", "d", "e", " ", "l", "a", " ", "t", "a", "r", "d", "e">>,
      <<"8", " ", "t", "a", "r", "d", "e">> }

\* phrases around dates, months and out-of-domain numbers
DatePhrases ==
    { <<"e", "v", "e", "r", "y", " ", "m", "o", "n", "t", "h">>, <<"a", "t", " ", "m", "i", "d", "n", "i", "g", "h", "t">>, <<"o", "n", " ", "t", "h", "e", " ", "1", "s", "t">>, <<"a", "n", "d", " ", "1", "5", "t", "h">>, <<"o", "n", " ", "t", "h", "e", " ", "9", "9", "t", "h">>,
      <<"a", "t", " ", "9", "a", "m">> }

\* phrases the detector refuses, next to a keyword, a cue, blank and unknown text
RefusalPhrases ==
    { <<"f", "i", "r", "s", "t", " ", "m", "o", "n", "d", "a", "y">>, <<"b", "u", "s", "i", "n", "e", "s", "s", " ", "d", "a", "y", "s">>, <<"e", "n", "d", " ", "o", "f", " ", "m", "o", "n", "t", "h">>, <<"h", "o", "u", "r", "l", "y">>, <<"a", "t", " ", "9", "a", "m">>,
      <<" ">>, <<"x", "y", "z">> }

\* hour windows in either order and intervals inside and outside their range
IntervalPhrases ==
    { <<"b", "e", "t", "w", "e", "e", "n", " ", "5", "p", "m", " ", "a", "n", "d", " ", "9", "a", "m">>, <<"b", "e", "t", "w", "e", "e", "n", " ", "9", " ", "a", "n", "d", " ", "5">>, <<"e", "v", "e", "r", "y", " ", "1", "5", " ", "m", "i", "n", "u", "t", "e", "s">>, <<"e", "v", "e", "r", "y", " ", "9", "0", " ", "m", "i", "n", "u", "t", "e", "s">>,
      <<"e", "v", "e", "r", "y", " ", "0", " ", "m", "i", "n", "u", "t", "e", "s">>, <<"e", "v", "e", "r", "y", " ", "3", "0", " ", "h", "o", "u", "r", "s">>, <<"e", "v", "e", "r", "y", " ", "2", " ", "h", "o", "u", "r", "s">> }

\* weekday and month lists out of order, repeated, and filling their domain
SetPhrases ==
    { <<"f", "r", "i", "d", "a", "y", " ", "a", "n", "d", " ", "m", "o", "n", "d", "a", "y">>, <<"o", "n", " ", "s", "u", "n", " ", "m", "o", "n", " ", "t", "u", "e", " ", "w", "e", "d">>, <<"t", "h", "u", " ", "f", "r", "i", " ", "s", "a", "t">>, <<"q", "u", "a", "r", "t", "e", "r", "l", "y">>,
      <<"i", "n", " ", "j", "a", "n", "u", "a", "r", "y">>, <<"i", "n", " ", "f", "e", "b", " ", "m", "a", "r", " ", "m", "a", "y", " ", "j", "u", "n">>, <<"i", "n", " ", "a", "u", "g", " ", "s", "e", "p", " ", "n", "o", "v", " ", "d", "e", "c">> }

\* text as a person types it: capitals, commas, tabs and runs of blanks
RawPhrases ==
    { <<"E", "v", "e", "r", "y", " ", " ", "M", "O", "N", "D", "A", "Y", ",">>, <<" ", "a", "t", " ", "9", "A", "M", " ">>, <<",", ",">>, <<"\t">> \o <<"a", "n", "d">>, <<"F", "r", "i", "d", "a", "y", " ", ",">>,
      <<"a", "t", " ", " ", "N", "O", "O", "N">> }

\* bare recurrence phrases, their frequency words, and intervals beside them
SynonymPhrases ==
    { <<"e", "v", "e", "r", "y", " ", "m", "i", "n", "u", "t", "e">>, <<"e", "v", "e", "r", "y", " ", "h", "o", "u", "r">>, <<"h", "o", "u", "r", "l", "y">>, <<"e", "v", "e", "r", "y", " ", "d", "a", "y">>, <<"d", "a", "i", "l", "y">>, <<"e", "v", "e", "r", "y", " ", "w", "e", "e", "k">>,
      <<"w", "e", "e", "k", "l", "y">>, <<"e", "v", "e", "r", "y", " ", "m", "o", "n", "t", "h">>, <<"m", "o", "n", "t", "h", "l", "y">>, <<"e", "v", "e", "r", "y", " ", "1", "5", " ", "m", "i", "n", "u", "t", "e", "s">>, <<"e", "v", "e", "r", "y", " ", "2", " ", "h", "o", "u", "r", "s">> }

\* time phrases the parser rejects, next to ones it reads
UnparsedPhrases ==
    { <<"a", "t", " ", "9", "9">>, <<"a", "t", " ", "9", ":", "7", "5">>, <<"a", "t", " ", "2", "5", ":", "3", "0">>, <<"a", "t", " ", "9", "a", "m">>, <<"o", "n", " ", "w", "e", "e", "k", "d", "a", "y", "s">>, <<"e", "v", "e", "r", "y", " ", "d", "a", "y">> }

\* the same day and time said in Spanish and in English
LocalePhrases == { <<"c", "a", "d", "a", " ", "l", "u", "n", "e", "s">>, <<"a", " ", "l", "a", "s", " ", "9", "a", "m">>, <<"e", "v", "e", "r", "y", " ", "m", "o", "n", "d", "a", "y">>, <<"a", "t", " ", "5", "p", "m">> }

\* codes of registered languages in several spellings, of an unregistered
\* language, and a name every object has
LocaleCodes == { <<"e", "n">>, <<"e", "s">>, <<"e", "s", "-", "M", "X">>, <<"E", "S">>, <<"f", "r", "-", "C", "A">>, <<"c", "o", "n", "s", "t", "r", "u", "c", "t", "o", "r">> }

\* texts for repeated calls
CallPhrases == { <<"e", "v", "e", "r", "y", " ", "m", "o", "n", "d", "a", "y">>, <<"a", "t", " ", "9", "a", "m">> }

\* week and month recurrences beside explicit weekdays and month-days
RecurrencePhrases ==
    { <<"e", "v", "e", "r", "y", " ", "w", "e", "e", "k">>, <<"w", "e", "e", "k", "l", "y">>, <<"e", "v", "e", "r", "y", " ", "m", "o", "n", "t", "h">>, <<"m", "o", "n", "t", "h", "l", "y">>, <<"o", "n", " ", "f", "r", "i", "d", "a", "y">>, <<"o", "n", " ", "t", "h", "e", " ", "1", "5", "t", "h">>,
      <<"o", "n", " ", "w", "e", "e", "k", "e", "n", "d", "s">> }

\* midnight and noon beside every rule that sets minute and hour, and an hour
\* window beside cadences written with and without a space
\* month names at the edges of the text and inside longer words, and ordinal
\* words beside words that hold a weekday abbreviation
WordPhrases ==
    { <<"j", "a", "n", "u", "a", "r", "y">>, <<"i", "n", " ", "j", "a", "n">>, <<"o", "n", " ", "d", "e", "c">>, <<"m", "a", "r", "c", "h", "i", "n", "g">>, <<"l", "a", "s", "t", " ", "m", "o", "n", "t", "h">>,
      <<"e", "v", "e", "r", "y", " ", "s", "e", "c", "o", "n", "d", " ", "m", "o", "n", "t", "h">>, <<"a", "t", " ", "9", "a", "m">> }

\* the two halves of a weekday-range phrase, and a weekday named outside it
RangePhrases ==
    { <<"d", "e", " ", "f", "r", "i", "d", "a", "y">>, <<"d", "e", " ", "m", "o", "n">>, <<"d", "e", " ", "s", "u", "n", "d", "a", "y">>, <<"a", " ", "m", "o", "n", "d", "a", "y">>, <<"a", " ", "s", "a", "t", "u", "r", "d", "a", "y">>, <<"a", " ", "s", "u", "n">>,
      <<"t", "u", "e", "s", "d", "a", "y">> }

\* the days of the month by halves, the last day, a day no month has, a month
\* and a weekday
FirstHalf ==
    <<"e", "l", " ", "1", " ", "e", "l", " ", "2", " ", "e", "l", " ", "3", " ", "e", "l", " ", "4", " ", "e", "l", " ", "5", " ", "e", "l", " ", "6", " ", "e", "l", " ", "7", " ", "e", "l", " ", "8", " ", "e", "l", " ", "9", " ", "e", "l", " ", "1", "0", " ", "e", "l", " ", "1", "1", " ", "e", "l", " ", "1", "2", " ", "e", "l", " ", "1", "3", " ", "e", "l", " ", "1", "4", " ", "e", "l", " ", "1", "5">>
SecondHalf ==
    <<"e", "l", " ", "1", "6", " ", "e", "l", " ", "1", "7", " ", "e", "l", " ", "1", "8", " ", "e", "l", " ", "1", "9", " ", "e", "l", " ", "2", "0", " ", "e", "l", " ", "2", "1", " ", "e", "l", " ", "2", "2", " ", "e", "l", " ", "2", "3", " ", "e", "l", " ", "2", "4", " ", "e", "l", " ", "2", "5", " ", "e", "l", " ", "2", "6", " ", "e", "l", " ", "2", "7", " ", "e", "l", " ", "2", "8", " ", "e", "l", " ", "2", "9", " ", "e", "l", " ", "3", "0">>
MonthDayPhrases ==
    { FirstHalf, SecondHalf, <<"e", "l", " ", "3", "1">>, <<"e", "l", " ", "9", "9">>, <<"i", "n", " ", "j", "a", "n">>, <<"o", "n", " ", "m", "o", "n", "d", "a", "y">> }

ClockPhrases ==
    { <<"a", "t", " ", "m", "i", "d", "n", "i", "g", "h", "t">>, <<"a", "t", " ", "n", "o", "o", "n">>, <<"a", "t", " ", "9", "a", "m">>, <<"e", "v", "e", "r", "y", " ", "1", "5", " ", "m", "i", "n", "u", "t", "e", "s">>, <<"e", "v", "e", "r", "y", "1", "5", " ", "m", "i", "n", "u", "t", "e", "s">>,
      <<"h", "o", "u", "r", "l", "y">>, <<"a", "t", " ", ":", "1", "5", " ", "p", "a", "s", "t", " ", "e", "v", "e", "r", "y", " ", "h", "o", "u", "r">>, <<"b", "e", "t", "w", "e", "e", "n", " ", "9", "a", "m", " ", "a", "n", "d", " ", "5", "p", "m">> }

NoResult == [pending |-> TRUE]

\* the caller's phrases and locale codes; calls remembered or not
InitFor(phrases, localeCodes, remember) ==
    /\ vocabulary = phrases
    /\ codes = localeCodes
    /\ recording = remember
    /\ locales = LOCALES
    /\ earlier = null
    /\ input = <<>>
    /\ typed = 0
    /\ locale \in localeCodes
    /\ pc = "typing"
    /\ normalizedText = <<>>
    /\ matches = null
    /\ result = NoResult

InitWith(phrases, localeCodes) == InitFor(phrases, localeCodes, FALSE)

Init == InitWith(TimePhrases, {<<"e", "n">>})
InitDates == InitWith(DatePhrases, {<<"e", "n">>})
InitRefusals == InitWith(RefusalPhrases, {<<"e", "n">>})
InitIntervals == InitWith(IntervalPhrases, {<<"e", "n">>})
InitSets == InitWith(SetPhrases, {<<"e", "n">>})
InitRaw == InitWith(RawPhrases, {<<"e", "n">>})
InitSynonyms == InitWith(SynonymPhrases, {<<"e", "n">>})
InitUnparsed == InitWith(UnparsedPhrases, {<<"e", "n">>, <<"c", "o", "n", "s", "t", "r", "u", "c", "t", "o", "r">>})
InitRecurrence == InitWith(RecurrencePhrases, {<<"e", "n">>})
InitClock == InitWith(ClockPhrases, {<<"e", "n">>})
InitWords == InitWith(WordPhrases, {<<"e", "n">>})
InitRanges == InitWith(RangePhrases, {<<"e", "n">>})
InitMonthDays == InitWith(MonthDayPhrases, {<<"e", "n">>})
InitLocales == InitWith(LocalePhrases, LocaleCodes)
InitCalls == InitFor(CallPhrases, {<<"e", "n">>, <<"c", "o", "n", "s", "t", "r", "u", "c", "t", "o", "r">>}, TRUE)

\* the caller appends one phrase, separated from the text so far by a space
Type(p) ==
    /\ pc = "typing"
    /\ typed < MaxPhrases
    /\ input' = IF typed = 0 THEN p ELSE input \o <<" ">> \o p
    /\ typed' = typed + 1
    /\ UNCHANGED <<vocabulary, locale, pc, normalizedText, matches, result,
                   codes, locales, recording, earlier>>

\* the call ends: its locals and its value are recorded; an error thrown
\* leaves no returned value
Return(run) ==
    /\ normalizedText' = run.normalizedText
    /\ matches' = run.matches
    /\ result' = run.result
    /\ pc' = IF DOMAIN run.result = {"threw"} THEN "threw" ELSE "returned"

\* the call cronned(input, locale); it reads the registry and writes nothing
\* outside its own locals
Call ==
    /\ pc = "typing"
    /\ Return(cronned(input, locale))
    /\ UNCHANGED <<vocabulary, input, typed, locale, codes, locales, recording, earlier>>

\* the caller starts over with a fresh text and a locale code of its choice;
\* where calls are remembered, the call just ended may take the place of the
\* remembered one
Again ==
    /\ pc \in {"returned", "threw"}
    /\ pc' = "typing"
    /\ input' = <<>>
    /\ typed' = 0
    /\ locale' \in codes
    /\ normalizedText' = <<>>
    /\ matches' = null
    /\ result' = NoResult
    /\ earlier' \in IF recording
                    THEN {earlier, Some([input |-> input, locale |-> locale, result |-> result])}
                    ELSE {earlier}
    /\ UNCHANGED <<vocabulary, codes, locales, recording>>

Next == (\E p \in vocabulary : Type(p)) \/ Call \/ Again

Spec == Init /\ [][Next]_vars
SpecDates == InitDates /\ [][Next]_vars
SpecRefusals == InitRefusals /\ [][Next]_vars
SpecIntervals == InitIntervals /\ [][Next]_vars
SpecSets == InitSets /\ [][Next]_vars
SpecRaw == InitRaw /\ [][Next]_vars
SpecSynonyms == InitSynonyms /\ [][Next]_vars
SpecUnparsed == InitUnparsed /\ [][Next]_vars
SpecRecurrence == InitRecurrence /\ [][Next]_vars
SpecClock == InitClock /\ [][Next]_vars
SpecWords == InitWords /\ [][Next]_vars
SpecRanges == InitRanges /\ [][Next]_vars
SpecMonthDays == InitMonthDays /\ [][Next]_vars
SpecLocales == InitLocales /\ [][Next]_vars
SpecCalls == InitCalls /\ [][Next]_vars

-----------------------------------------------------------------------------
(* Reading a returned value back *)

Returned == pc = "returned"
Succeeded == Returned /\ DOMAIN result = {"crons"}
Failed == Returned /\ DOMAIN result = {"unsupported"}
Matched == Returned /\ matches # null

\* s.split(sep) for a one-character separator
RECURSIVE Split(_, _)
Split(s, sep) ==
    LET cuts == {i \in DOMAIN s : s[i] = sep}
    IN  IF cuts = {} THEN <<s>>
        ELSE <<SubSeq(s, 1, Least(cuts) - 1)>> \o Split(SubSeq(s, Least(cuts) + 1, Len(s)), sep)

IsNumber(s) == s # <<>> /\ \A i \in DOMAIN s : s[i] \in DigitClass

\* a field of the cron grammar over the domain lo..hi: *, an integer, an
\* ascending duplicate-free comma list, a range a-b, or a step */N
FieldValid(f, lo, hi) ==
    LET items == Split(f, ",")
        ends == Split(f, "-")
        inDomain(s) == IsNumber(s) /\ ParseInt(s) >= lo /\ ParseInt(s) <= hi
    IN  \/ f = <<"*">>
        \/ /\ \A i \in DOMAIN items : inDomain(items[i])
           /\ \A i \in DOMAIN items : i > 1 => ParseInt(items[i - 1]) < ParseInt(items[i])
        \/ /\ Len(ends) = 2
           /\ inDomain(ends[1]) /\ inDomain(ends[2])
           /\ ParseInt(ends[1]) <= ParseInt(ends[2])
        \/ /\ Len(f) > 2 /\ SubSeq(f, 1, 2) = <<"*", "/">>
           /\ IsNumber(SubSeq(f, 3, Len(f)))
           /\ ParseInt(SubSeq(f, 3, Len(f))) >= 1
           /\ ParseInt(SubSeq(f, 3, Len(f))) <= hi

LineValid(line) ==
    LET f == Split(line, " ")
    IN  /\ Len(f) = 5
        /\ FieldValid(f[1], 0, 59)
        /\ FieldValid(f[2], 0, 23)
        /\ FieldValid(f[3], 1, 31)
        /\ FieldValid(f[4], 1, 12)
        /\ FieldValid(f[5], 0, 6)

\* the words of a normalized text
Tokens(t) == IF t = <<>> THEN <<>> ELSE Split(t, " ")

-----------------------------------------------------------------------------
(* Claims *)

\* C1: a list of times after one lead-in word, joined by "and", yields one cron
\* line per listed time in listed order: a text beginning "at T1 and T2" returns
\* exactly the line of T1 followed by the line of T2.
ClockWords == {<<<<"9", "a", "m">>, <<"0", " ", "9", " ">>>>, <<<<"5", "p", "m">>, <<"0", " ", "1", "7", " ">>>>}
C1_OneLinePerListedTime ==
    \A a \in ClockWords, b \in ClockWords :
        (Returned /\ StartsWith(normalizedText, <<"a", "t", " ">> \o a[1] \o <<" ", "a", "n", "d", " ">> \o b[1]))
        => /\ DOMAIN result = {"crons"}
           /\ Len(result.crons) = 2
           /\ StartsWith(result.crons[1], a[2])
           /\ StartsWith(result.crons[2], b[2])

\* C2: a weekday key selects a weekday only as a whole token: when no token of
\* the text is a weekday key, no weekday is extracted; and "every month at
\* midnight" converts to "0 0 1 * *".
C2_WeekdayOnlyAsWholeToken ==
    Matched =>
        /\ (\A i \in DOMAIN Tokens(normalizedText) :
                Tokens(normalizedText)[i] \notin KeySet(getLocale(locale).weekdays))
           => matches[1].selectedWeekdays = <<>>
        /\ normalizedText = <<"e", "v", "e", "r", "y", " ", "m", "o", "n", "t", "h", " ", "a", "t", " ", "m", "i", "d", "n", "i", "g", "h", "t">>
           => result = [crons |-> <<<<"0", " ", "0", " ", "1", " ", "*", " ", "*">>>>]

\* C3: every field of every emitted cron line matches the cron grammar and its
\* numeric domain (minute 0-59, hour 0-23, day of month 1-31, month 1-12, day of
\* week 0-6).
C3_FieldsInDomain ==
    Succeeded => \A i \in DOMAIN result.crons : LineValid(result.crons[i])

\* C4: every ordinal date of the sentence is collected into the day-of-month
\* field: the days extracted are exactly the numbers of the ordinal words
\* (1st, 15th, ...) of a text that has an "on the Nth" phrase, and "on the 1st
\* and 15th at 9am" gives "0 9 1,15 * *".
OrdinalNumber(token) ==
    LET n == RunLen(token, 1, DigitClass)
    IN  IF n \in {1, 2} /\ SubSeq(token, n + 1, Len(token)) \in {<<"s", "t">>, <<"n", "d">>, <<"r", "d">>, <<"t", "h">>}
        THEN Some(ParseInt(SubSeq(token, 1, n))) ELSE null
OrdinalNumbers(t) ==
    {OrdinalNumber(Tokens(t)[i])[1] : i \in {j \in DOMAIN Tokens(t) : OrdinalNumber(Tokens(t)[j]) # null}}
C4_EveryOrdinalCollected ==
    (Matched /\ onTheNthPattern(normalizedText)) =>
        /\ Range(matches[1].selectedMonthDays) = OrdinalNumbers(normalizedText)
        /\ normalizedText = <<"o", "n", " ", "t", "h", "e", " ", "1", "s", "t", " ", "a", "n", "d", " ", "1", "5", "t", "h", " ", "a", "t", " ", "9", "a", "m">>
           => result = [crons |-> <<<<"0", " ", "9", " ", "1", ",", "1", "5", " ", "*", " ", "*">>>>]

\* C5: with more than one explicit time the call succeeds with exactly one line
\* per extracted time; line i has the minute and hour of the i-th time (hour "*"
\* for the unspecified hour) and every line has the day-of-month, month and
\* day-of-week that the resolver gives with the times suppressed.
C5_OneLinePerExtractedTime ==
    (Matched /\ Len(matches[1].parsedTimes) > 1) =>
        LET times == matches[1].parsedTimes
            base == buildCronFields(normalizedText, [matches[1] EXCEPT !.parsedTimes = <<>>],
                                    getLocale(locale))
        IN  /\ DOMAIN result = {"crons"}
            /\ Len(result.crons) = Len(times)
            /\ \A i \in DOMAIN times :
                  Split(result.crons[i], " ") =
                      << NumToString(times[i].minute),
                         IF times[i].hour24 = NaN THEN <<"*">> ELSE NumToString(times[i].hour24),
                         base.dayOfMonth, base.month, base.dayOfWeek >>
C5_Witness ==
    /\ Matched
    /\ Len(matches[1].parsedTimes) = 2
    /\ result = [crons |-> <<<<"0", " ", "9", " ", "*", " ", "*", " ", "1", "-", "5">>, <<"0", " ", "1", "7", " ", "*", " ", "*", " ", "1", "-", "5">>>>]

\* C6: the parsed times follow the order in which their phrases occur in the
\* text, whatever the form of each phrase.
AllTimeMatches(t, loc) ==
    LET explicitMatches == MatchAll("chineseExplicit", t, 1, loc)
        near(kw) == \E x \in DOMAIN explicitMatches :
                        /\ kw.index <= explicitMatches[x].end + 2
                        /\ kw.end >= explicitMatches[x].index - 2
    IN  explicitMatches
        \o SelectSeq(MatchAll("chineseKeyword", t, 1, loc), LAMBDA kw : ~near(kw))
        \o MatchAll("western", t, 1, loc)
        \o MatchAll("spanish", t, 1, loc)
C6_TimesInTextOrder ==
    Matched =>
        LET found == SelectSeq(AllTimeMatches(normalizedText, getLocale(locale)),
                               LAMBDA m : parseTime(m.val) # null)
        IN  /\ matches[1].parsedTimes = ParseAll(found)
            /\ \A i \in DOMAIN found, j \in DOMAIN found :
                  i < j => found[i].index <= found[j].index

\* C7: a success holds one line per distinct time: no two of its lines are the
\* same.
C7_NoRepeatedLine ==
    Succeeded =>
        \A i \in DOMAIN result.crons, j \in DOMAIN result.crons :
            i # j => result.crons[i] # result.crons[j]

\* C8: the detector is terminal and ordered: a text matching the nth-weekday
\* check is refused with that message; otherwise one matching "business days"
\* with the business-days message; otherwise one matching last-day/end-of-month
\* with the last-day message; and no cron line is returned in any of the three.
C8_DetectorTerminalOrdered ==
    Returned =>
        LET t == normalizedText
            nth == nthWeekdayPattern(t, Positions(t), KeySet(getLocale(locale).weekdays)) # {}
            business == businessDaysPattern(t, Positions(t)) # {}
            lastDay == lastDayPattern(t, Positions(t)) # {}
        IN  /\ nth => result = [unsupported |-> MsgNthWeekday]
            /\ (~nth /\ business) => result = [unsupported |-> MsgBusinessDays]
            /\ (~nth /\ ~business /\ lastDay) => result = [unsupported |-> MsgLastDay]
C8_Witness ==
    /\ Returned
    /\ businessDaysPattern(normalizedText, Positions(normalizedText)) # {}
    /\ lastDayPattern(normalizedText, Positions(normalizedText)) # {}
    /\ result = [unsupported |-> MsgNthWeekday]

\* C9: when the detector does not fire, the call fails with "Could not
\* understand the input" exactly when no month, weekday, month-day, time,
\* window, interval or minute-past-hour cue was extracted and the text holds no
\* frequency keyword; an empty or blank input fails so and gives no cron line.
C9_NotUnderstoodIffNoSignal ==
    Matched =>
        LET m == matches[1]
            cue == \/ m.selectedMonths # <<>> \/ m.selectedWeekdays # <<>>
                   \/ m.selectedMonthDays # <<>> \/ m.parsedTimes # <<>>
                   \/ m.hourWindowRange # null \/ m.everyNMinutes # null
                   \/ m.everyNHours # null \/ m.atPastEachHour # null
            keyword == \E i \in DOMAIN Tokens(normalizedText) :
                          Tokens(normalizedText)[i] \in
                              UNION {Range(getLocale(locale).keywords[k]) :
                                       k \in {"every", "hourly", "daily", "weekly", "monthly",
                                              "weekday", "weekend", "midnight", "noon",
                                              "minute", "hour", "day", "week", "month"}}
        IN  /\ (result = [unsupported |-> MsgNotUnderstood]) <=> (~cue /\ ~keyword)
            /\ (\A i \in DOMAIN input : input[i] \in SpaceClass)
               => result = [unsupported |-> MsgNotUnderstood]
C9_Witness ==
    /\ Returned
    /\ input # <<>>
    /\ \A i \in DOMAIN input : input[i] \in SpaceClass
    /\ result = [unsupported |-> MsgNotUnderstood]

\* C10: a call returns exactly one of two outcomes: a success with a non-empty
\* list of cron lines, or a failure with a message; never both, never a success
\* with no line.
C10_OneOutcome ==
    Returned =>
        /\ DOMAIN result \in {{"crons"}, {"unsupported"}}
        /\ DOMAIN result = {"crons"} => Len(result.crons) >= 1
        /\ DOMAIN result = {"unsupported"}
           => result.unsupported \in {MsgNthWeekday, MsgBusinessDays, MsgLastDay,
                                      MsgNotUnderstood, MsgNoValidCron}
C10_Witness ==
    /\ Succeeded
    /\ Len(result.crons) >= 2

\* the five fields of the only line of a single-line success
Fields == Split(result.crons[1], " ")

\* C11: for a "between A and B" phrase, in whatever order and with whatever
\* meridiems, the extracted hour window "start-end" has start <= end, start the
\* smaller and end the larger of the two bounds converted to 24 hours.
C11_WindowOrdered ==
    (Matched /\ matches[1].hourWindowRange # null) =>
        LET found == betweenWindowMatch(normalizedText, getLocale(locale))
            ends == Split(matches[1].hourWindowRange[1], "-")
        IN  /\ found # null
            /\ Len(ends) = 2 /\ IsNumber(ends[1]) /\ IsNumber(ends[2])
            /\ ParseInt(ends[1]) <= ParseInt(ends[2])
            /\ {ParseInt(ends[1]), ParseInt(ends[2])}
                 = { to24Hour(found[1].c1.hour, found[1].c1.ampm),
                     to24Hour(found[1].c2.hour, found[1].c2.ampm) }
C11_Witness ==
    /\ Matched
    /\ normalizedText = <<"b", "e", "t", "w", "e", "e", "n", " ", "5", "p", "m", " ", "a", "n", "d", " ", "9", "a", "m">>
    /\ matches[1].hourWindowRange = Some(<<"9", "-", "1", "7">>)
    /\ result = [crons |-> <<<<"*", " ", "9", "-", "1", "7", " ", "*", " ", "*", " ", "*">>>>]

\* C13: an interval outside its range is clamped, never refused: for "every N
\* minutes" the extracted interval is min(max(N,1),59) and for "every N hours"
\* it is min(max(N,1),23); where no later rule of the resolver rewrites the
\* field (no explicit time, minute-past-hour, window, "every minute", "every
\* hour", midnight or noon), the minute field is "*/" and the clamped minutes,
\* and the hour field is "*/" and the clamped hours.
Clamped(n, hi) == IF n < 1 THEN 1 ELSE IF n > hi THEN hi ELSE n
NoClockRule ==
    LET loc == getLocale(locale)
    IN  /\ matches[1].parsedTimes = <<>>
        /\ matches[1].atPastEachHour = null
        /\ matches[1].hourWindowRange = null
        /\ ~ContainsAny(normalizedText, loc.keywords.midnight)
        /\ ~ContainsAny(normalizedText, loc.keywords.noon)
BareMinuteOrHour ==
    LET loc == getLocale(locale)
    IN  \/ everyUnitPattern(normalizedText, loc, loc.keywords.minute)
        \/ everyUnitPattern(normalizedText, loc, loc.keywords.hour)
NoLaterTimeRule == NoClockRule /\ ~BareMinuteOrHour
IsListOf(field, S, domain) ==
    LET items == Split(field, ",")
    IN  IF S = domain THEN field = <<"*">>
        ELSE /\ \A i \in DOMAIN items : IsNumber(items[i])
             /\ \A i \in DOMAIN items : i > 1 => ParseInt(items[i - 1]) < ParseInt(items[i])
             /\ {ParseInt(items[i]) : i \in DOMAIN items} = S
C12_SetsCollapseOrList ==
    (Matched /\ Succeeded) =>
        LET loc == getLocale(locale)
            m == matches[1]
        IN  /\ Len(result.crons) = 1
            /\ m.selectedMonths # <<>> => IsListOf(Fields[4], Range(m.selectedMonths), 1..12)
            /\ ( /\ m.selectedWeekdays # <<>>
                 /\ ~everyUnitPattern(normalizedText, loc, loc.keywords.week)
                 /\ ~ContainsAny(normalizedText, loc.keywords.weekly) )
               => IsListOf(Fields[5], Range(m.selectedWeekdays), 0..6)
C12_Witness ==
    /\ Matched
    /\ matches[1].selectedWeekdays = <<5, 1>>
    /\ matches[1].selectedMonths = <<1, 1, 4, 7, 10>>
    /\ result = [crons |-> <<<<"*", " ", "*", " ", "*", " ", "1", ",", "4", ",", "7", ",", "1", "0", " ", "1", ",", "5">>>>]

-----------------------------------------------------------------------------
(* Normalization *)

\* the text has no comma, no capital, no blank but single inner spaces
IsNormal(t) ==
    /\ \A i \in DOMAIN t : t[i] # "," /\ t[i] \notin Range(UpperChars)
    /\ \A i \in DOMAIN t : t[i] \in SpaceClass =>
            t[i] = " " /\ i # 1 /\ i # Len(t) /\ t[i + 1] \notin SpaceClass

\* C15: the text the rules see is lower-case, has no comma, has single spaces
\* between its words and none at its ends, and normalizing it again changes
\* nothing.
C15_NormalizeIdempotent ==
    Returned =>
        /\ normalizedText = normalizeInput(input)
        /\ IsNormal(normalizedText)
        /\ normalizeInput(normalizedText) = normalizedText

\* a returned call on a text with a comma next to a blank, a capital, a tab and
\* a run of blanks
C15_Witness ==
    /\ Returned
    /\ \E i \in DOMAIN input : input[i] = "," /\ i < Len(input) /\ input[i + 1] = " "
    /\ \E i \in DOMAIN input : input[i] \in Range(UpperChars)
    /\ \E i \in DOMAIN input : input[i] = "\t"
    /\ input[1] = " "
    /\ normalizedText # input
    /\ normalizedText # <<>>

-----------------------------------------------------------------------------
(* Bare recurrence phrases and frequency words *)

\* C19: where an "every N minutes" or "every N hours" interval has set the
\* minute or the hour field, an "every minute" or "every hour" phrase in the
\* same text leaves that field as the interval set it (no explicit time, hour
\* window, midnight or noon being present).
C19_BarePhraseKeepsSetField ==
    (Matched /\ Succeeded /\ BareMinuteOrHour /\ NoClockRule) =>
        /\ matches[1].everyNMinutes # null =>
              Fields[1] = <<"*", "/">> \o NumToString(matches[1].everyNMinutes[1])
        /\ matches[1].everyNHours # null =>
              Fields[2] = <<"*", "/">> \o NumToString(matches[1].everyNHours[1])

\* String.prototype.replaceAll on texts
RECURSIVE ReplaceAll(_, _, _, _)
ReplaceAll(s, from, to, i) ==
    IF i > Len(s) THEN <<>>
    ELSE IF i + Len(from) - 1 <= Len(s) /\ SubSeq(s, i, i + Len(from) - 1) = from
         THEN to \o ReplaceAll(s, from, to, i + Len(from))
         ELSE <<s[i]>> \o ReplaceAll(s, from, to, i + 1)

Synonyms ==
    { <<<<"e", "v", "e", "r", "y", " ", "h", "o", "u", "r">>, <<"h", "o", "u", "r", "l", "y">>>>, <<<<"e", "v", "e", "r", "y", " ", "d", "a", "y">>, <<"d", "a", "i", "l", "y">>>>,
      <<<<"e", "v", "e", "r", "y", " ", "w", "e", "e", "k">>, <<"w", "e", "e", "k", "l", "y">>>>, <<<<"e", "v", "e", "r", "y", " ", "m", "o", "n", "t", "h">>, <<"m", "o", "n", "t", "h", "l", "y">>>> }

\* C20: writing the frequency word in place of its bare recurrence phrase
\* ("hourly" for "every hour", "daily" for "every day", "weekly" for "every
\* week", "monthly" for "every month") gives the same result, whatever else
\* the text says.
C20_FrequencyWordSynonym ==
    Returned =>
        \A s \in Synonyms :
            cronned(ReplaceAll(input, s[1], s[2], 1), locale).result = result

-----------------------------------------------------------------------------
(* Totality *)

Ended == pc \in {"returned", "threw"}

\* every time phrase the patterns find in the text, parseable or not
TimePhrasesFound(t, loc) == AllTimeMatches(t, loc) \o MatchAll("spanish", t, 1, loc)

\* C17: on every text and locale code the call ends by returning a success or
\* a failure, and throws nothing; a time
\* phrase found in the text that the parser rejects adds no parsed time, and
\* every parsed time has its minute in 0..59 and its hour in 0..23 or absent.
C17_TotalAndUnparsedAbsent ==
    /\ Ended => pc = "returned" /\ DOMAIN result \in {{"crons"}, {"unsupported"}}
    /\ Matched =>
          LET found == TimePhrasesFound(normalizedText, getLocale(locale))
              read == SelectSeq(found, LAMBDA m : parseTime(m.val) # null)
          IN  /\ Len(matches[1].parsedTimes) = Len(read)
              /\ \A i \in DOMAIN matches[1].parsedTimes :
                    /\ matches[1].parsedTimes[i].minute \in 0..59
                    /\ matches[1].parsedTimes[i].hour24 \in (0..23) \cup {NaN}

-----------------------------------------------------------------------------
(* Locale resolution and repeated calls *)

\* C16: the call ends by returning whatever the locale code; a code of a
\* registered language, in any case and with any region suffix, gives the
\* result of that language's plain code, and any other code gives the
\* result of the English bundle.
C16_LocaleResolution ==
    Ended =>
        LET base == LocaleName(locale)
        IN  /\ pc = "returned"
            /\ result = cronned(input, IF base \in KeySet(LOCALES) THEN base ELSE <<"e", "n">>).result

-----------------------------------------------------------------------------
(* The field resolver's later rules *)

\* the five fields of line i of a success
FieldsOf(i) == Split(result.crons[i], " ")

WeekPhrase ==
    LET loc == getLocale(locale)
    IN  \/ everyUnitPattern(normalizedText, loc, loc.keywords.week)
        \/ ContainsAny(normalizedText, loc.keywords.weekly)
MonthPhrase ==
    LET loc == getLocale(locale)
    IN  \/ everyUnitPattern(normalizedText, loc, loc.keywords.month)
        \/ ContainsAny(normalizedText, loc.keywords.monthly)

\* the final guard applies to a line with this day-of-month field
GuardApplies(dayOfMonth) ==
    /\ dayOfMonth # <<"*">>
    /\ onTheNthPattern(normalizedText)
    /\ matches[1].selectedWeekdays = <<>>

\* C21: with "every week" or "weekly" in the text the day-of-week field of
\* every line is "0", whatever weekdays were selected, or "*" where the final
\* guard resets it; with "every month" or "monthly" the day-of-month field is
\* "1", whatever month-days were selected.
C21_RecurrenceOverwrites ==
    (Matched /\ Succeeded) =>
        \A i \in DOMAIN result.crons :
            /\ WeekPhrase =>
                  \/ FieldsOf(i)[5] = <<"0">>
                  \/ FieldsOf(i)[5] = <<"*">> /\ GuardApplies(FieldsOf(i)[3])
            /\ MonthPhrase => FieldsOf(i)[3] = <<"1">>

\* a selected weekday and a selected month-day under a week recurrence
C21_Witness ==
    /\ Matched
    /\ normalizedText = <<"o", "n", " ", "f", "r", "i", "d", "a", "y", " ", "o", "n", " ", "t", "h", "e", " ", "1", "5", "t", "h", " ", "w", "e", "e", "k", "l", "y">>
    /\ matches[1].selectedWeekdays = <<5>>
    /\ matches[1].selectedMonthDays = <<15>>
    /\ result = [crons |-> <<<<"0", " ", "0", " ", "1", "5", " ", "*", " ", "0">>>>]

\* C22: with at most one explicit time, a text with the noon keyword has minute
\* "0" and hour "12", and a text with the midnight keyword and without the
\* noon keyword has minute "0" and hour "0", whatever interval, frequency
\* word, minute-past-hour cue or explicit time it also holds; only an hour
\* window replaces them, the hour by its range and the minute by "*".
C22_KeywordTimeOverwrites ==
    (Matched /\ Succeeded /\ Len(matches[1].parsedTimes) <= 1) =>
        LET loc == getLocale(locale)
            atNoon == ContainsAny(normalizedText, loc.keywords.noon)
            atMidnight == ContainsAny(normalizedText, loc.keywords.midnight)
            hour == IF atNoon THEN <<"1", "2">> ELSE <<"0">>
        IN  (atNoon \/ atMidnight) =>
                IF matches[1].hourWindowRange = null
                THEN Fields[1] = <<"0">> /\ Fields[2] = hour
                ELSE /\ Fields[1] \in {<<"0">>, <<"*">>}
                     /\ Fields[2] \in {hour, matches[1].hourWindowRange[1]}

\* an interval and an explicit time, both overwritten by noon
C22_Witness ==
    /\ Matched
    /\ normalizedText = <<"e", "v", "e", "r", "y", " ", "1", "5", " ", "m", "i", "n", "u", "t", "e", "s", " ", "a", "t", " ", "9", "a", "m", " ", "a", "t", " ", "n", "o", "o", "n">>
    /\ matches[1].everyNMinutes = Some(15)
    /\ Len(matches[1].parsedTimes) = 1
    /\ result = [crons |-> <<<<"0", " ", "1", "2", " ", "*", " ", "*", " ", "*">>>>]

\* the fields of a line with the given minute and hour
WithTime(f, minute, hour) == <<minute, hour, f.dayOfMonth, f.month, f.dayOfWeek>>

\* C23: with at most one explicit time, an hour window beside an "every N
\* minutes" interval or an "every hour"/"hourly" phrase replaces the hour field
\* and leaves the minute field as it was; otherwise, with no explicit time, it
\* replaces the hour field and the minute field is "*"; otherwise it changes
\* no field.
C23_WindowCases ==
    (Matched /\ Succeeded /\ matches[1].hourWindowRange # null
             /\ Len(matches[1].parsedTimes) <= 1) =>
        LET loc == getLocale(locale)
            range == matches[1].hourWindowRange[1]
            base == buildCronFields(normalizedText,
                                    [matches[1] EXCEPT !.hourWindowRange = null], loc)
        IN  IF \/ matches[1].everyNMinutes # null
               \/ everyUnitPattern(normalizedText, loc, loc.keywords.hour)
               \/ ContainsAny(normalizedText, loc.keywords.hourly)
            THEN Fields = WithTime(base, base.minute, range)
            ELSE IF matches[1].parsedTimes = <<>>
            THEN Fields = WithTime(base, <<"*">>, range)
            ELSE Fields = WithTime(base, base.minute, base.hour)

-----------------------------------------------------------------------------
(* Out-of-range times *)

\* the phrase reads as H:MM, with or without a meridiem, and its hour in 24
\* hours is above 23 or its minute above 59
OutOfRange(phrase) ==
    LET em == explicitTimeMatch(Trim(phrase))
    IN  /\ em # null
        /\ em[1].minute # null
        /\ to24Hour(em[1].hour, em[1].ampm) > 23 \/ em[1].minute[1] > 59

\* C25: a time phrase found in the text that reads as H:MM with an hour above
\* 23 or a minute above 59 is no time to the parser, and a text whose time
\* phrases are all of this kind has no parsed time.
C25_OutOfRangeAbsent ==
    Matched =>
        LET found == TimePhrasesFound(normalizedText, getLocale(locale))
        IN  /\ \A i \in DOMAIN found :
                  OutOfRange(found[i].val) => parseTime(found[i].val) = null
            /\ (\A i \in DOMAIN found : OutOfRange(found[i].val))
                  => matches[1].parsedTimes = <<>>

-----------------------------------------------------------------------------
(* Month names and ordinal words *)

\* the set of the words of a normalized text
WordsOf(t) == Range(Tokens(t))

\* the month numbers whose keys are words of the text
MonthsNamed(t, loc) ==
    {loc.months[i][2] : i \in {j \in DOMAIN loc.months : loc.months[j][1] \in WordsOf(t)}}

\* C26: a month key selects its month when it is a word of the text, at either
\* edge or between spaces, the text that is exactly the key included, and a key
\* found only inside a longer word selects nothing: the selected months are
\* exactly the months whose keys are words of the text.
C26_MonthAtEdges ==
    Matched =>
        Range(matches[1].selectedMonths) = MonthsNamed(normalizedText, getLocale(locale))

\* C29: the nth/last-weekday refusal needs a weekday name: a text none of
\* whose words is a weekday key of the active bundle is never refused with the
\* nth/last weekday diagnostic.
C29_NthRefusalNeedsWeekday ==
    (Returned /\ WordsOf(normalizedText) \cap KeySet(getLocale(locale).weekdays) = {})
        => result # [unsupported |-> MsgNthWeekday]

-----------------------------------------------------------------------------
(* Weekday ranges *)

\* the places of the text's words where a range phrase stands: "de" or "del",
\* a weekday key, "a" or "al", a weekday key
RangePhraseAt(words, keys) ==
    {i \in DOMAIN words :
        /\ i + 3 <= Len(words)
        /\ words[i] \in {<<"d", "e">>, <<"d", "e", "l">>}
        /\ words[i + 1] \in keys
        /\ words[i + 2] \in {<<"a">>, <<"a", "l">>}
        /\ words[i + 3] \in keys}

\* the days from s to e, around the end of the week when e is before s
DaysFromTo(s, e) == IF s <= e THEN s..e ELSE (s..6) \cup (0..e)

\* C27: where the text holds a weekday-range phrase, the selected weekdays are
\* exactly the days from the start day to the end day of the first such phrase,
\* around the end of the week when the end day is before the start day, and
\* weekday names elsewhere in the text add nothing; the day-of-week field is
\* "*" for a range of all seven days and the ascending list of the days
\* otherwise.
C27_WeekdayRangeCyclic ==
    LET loc == getLocale(locale)
        words == Tokens(normalizedText)
        at == RangePhraseAt(words, KeySet(loc.weekdays))
        days == DaysFromTo(Lookup(loc.weekdays, words[Least(at) + 1]),
                           Lookup(loc.weekdays, words[Least(at) + 3]))
    IN  (Matched /\ at # {}) =>
            /\ Range(matches[1].selectedWeekdays) = days
            /\ Len(matches[1].selectedWeekdays) = Cardinality(days)
            /\ Succeeded /\ Len(result.crons) = 1
            /\ IsListOf(Fields[5], days, 0..6)
C27_Witness ==
    /\ Matched
    /\ normalizedText = <<"t", "u", "e", "s", "d", "a", "y", " ", "d", "e", " ", "f", "r", "i", "d", "a", "y", " ", "a", " ", "m", "o", "n", "d", "a", "y">>
    /\ matches[1].selectedWeekdays = <<5, 6, 0, 1>>
    /\ result = [crons |-> <<<<"*", " ", "*", " ", "*", " ", "*", " ", "0", ",", "1", ",", "5", ",", "6">>>>]

-----------------------------------------------------------------------------
(* The grammar check *)

\* C28: the grammar check never fails: no call returns the "could not
\* construct a valid cron" failure, and a call that passes the detector and the
\* no-signal check with at most one parsed time returns one line of five
\* non-empty fields made of digits, "*", "/", "," and "-" only.
C28_GrammarCheckNeverFails ==
    /\ Returned => result # [unsupported |-> MsgNoValidCron]
    /\ ( /\ Matched
         /\ hasAnyMatch(normalizedText, matches[1], getLocale(locale))
         /\ Len(matches[1].parsedTimes) <= 1 )
       => /\ Succeeded
          /\ Len(result.crons) = 1
          /\ Len(Fields) = 5
          /\ \A i \in 1..5 : Fields[i] # <<>> /\ Range(Fields[i]) \subseteq CronChars
C28_Witness ==
    /\ Matched
    /\ normalizedText = <<"a", "t", " ", "2", "5", ":", "3", "0">>
    /\ Len(matches[1].parsedTimes) = 1
    /\ matches[1].parsedTimes[1].hour24 = NaN
    /\ result = [crons |-> <<<<"3", "0", " ", "*", " ", "*", " ", "*", " ", "*">>>>]

-----------------------------------------------------------------------------
(* Collapsing a full set *)

\* C30: in a single-line success, a field built from a non-empty list of
\* extracted values is "*" exactly when the set of the values is the field's
\* whole domain: 1..31 for the day of the month, 1..12 for the month, 0..6 for
\* the day of the week.
C30_StarIffFullDomain ==
    (Matched /\ Succeeded /\ Len(result.crons) = 1) =>
        /\ matches[1].selectedMonthDays # <<>>
           => (Fields[3] = <<"*">> <=> Range(matches[1].selectedMonthDays) = 1..31)
        /\ matches[1].selectedMonths # <<>>
           => (Fields[4] = <<"*">> <=> Range(matches[1].selectedMonths) = 1..12)
        /\ matches[1].selectedWeekdays # <<>>
           => (Fields[5] = <<"*">> <=> Range(matches[1].selectedWeekdays) = 0..6)

====
